---- MODULE Spec2Model ----
(***************************************************************************)
(* Model of the HUB-Assigner data pipeline (src/unnamed/part_001):         *)
(* runInitialProcessing (normalise, build the two lookups, enrich) and     *)
(* assignAndGenerateExcel (duplicate filter, ZOP partition, categorise,    *)
(* round-robin assignment, pivot, final sheet).                            *)
(*                                                                         *)
(* A cell is a record [t, n, s]: t is the JavaScript type of the value     *)
(* ("num", "str", "undef", and "nan" for the number NaN), n its numeric    *)
(* value and s its string value.  A row is a sequence of cells; JavaScript *)
(* index i is position i + 1 of the sequence.  A table is a sequence of    *)
(* rows, row 0 being the header.                                           *)
(***************************************************************************)
EXTENDS Integers, Sequences, FiniteSets, TLC

VARIABLES
    rawFile,            \* decoded first sheet of "Excel 1" (sheet_to_json, defval "")
    infoFile,           \* decoded sheet of "Excel 2"
    dupFile,            \* decoded sheet of "Excel 3"
    zraxFilter,         \* 'NONE' | 'ZOP' | 'OZ'
    cnAssignees,        \* the four name lists handed to assignAndGenerateExcel
    jpAssignees,
    specialAssignees,
    generalAssignees,
    pc,                 \* "uploaded" -> "processed" -> "assigned" | "failed"
    normalizedData,     \* the normalised table: rawData after step 2.4
    processedData,      \* the table runInitialProcessing returned
    partitions,         \* per processAndAssign call: its input rows and its four buckets
    finalSheetData,     \* the table handed to aoa_to_sheet
    pivotData,          \* the pivot assignAndGenerateExcel returned
    page,               \* AssignerPage: its flags and the call it is waiting for
    modal,              \* AssignmentModal: the text of its four inputs
    columnAFile,        \* ColumnAProcessor: the first sheet of its file
    columnAResult       \* ColumnAProcessor: whether processColumnA returned, and its list

vars == <<rawFile, infoFile, dupFile, zraxFilter, cnAssignees, jpAssignees,
          specialAssignees, generalAssignees, pc, normalizedData, processedData,
          partitions, finalSheetData, pivotData, page, modal, columnAFile,
          columnAResult>>

----------------------------------------------------------------------------
(* JavaScript values *)

Num(v) == [t |-> "num", n |-> v, s |-> ""]
Str(x) == [t |-> "str", n |-> 0, s |-> x]
Undef == [t |-> "undef", n |-> 0, s |-> ""]
NaN == [t |-> "nan", n |-> 0, s |-> ""]
Null == [t |-> "null", n |-> 0, s |-> ""]

\* row[i] with a JavaScript index: undefined past the end of the array
At(row, i) == IF i >= 0 /\ i < Len(row) THEN row[i + 1] ELSE Undef

\* isNaN(x) for the result of Number(...)
isNaN(c) == c.t = "nan"

\* truthiness of a value, as the conditional operator tests it
Truthy(c) ==
    \/ c.t = "num" /\ c.n # 0
    \/ c.t = "str" /\ c.s # ""

Digits == <<"0", "1", "2", "3", "4", "5", "6", "7", "8", "9">>

IsDigit(ch) == \E d \in 1..10 : Digits[d] = ch

DigitVal(ch) == (CHOOSE d \in 1..10 : Digits[d] = ch) - 1

IsSpace(ch) == ch = " "

RECURSIVE TrimLeft(_)
TrimLeft(x) ==
    IF Len(x) > 0 /\ IsSpace(SubSeq(x, 1, 1)) THEN TrimLeft(SubSeq(x, 2, Len(x))) ELSE x

RECURSIVE TrimRight(_)
TrimRight(x) ==
    IF Len(x) > 0 /\ IsSpace(SubSeq(x, Len(x), Len(x)))
    THEN TrimRight(SubSeq(x, 1, Len(x) - 1))
    ELSE x

RECURSIVE ParseDigits(_, _)
ParseDigits(x, acc) ==
    IF Len(x) = 0 THEN Num(acc)
    ELSE IF IsDigit(SubSeq(x, 1, 1))
         THEN ParseDigits(SubSeq(x, 2, Len(x)), 10 * acc + DigitVal(SubSeq(x, 1, 1)))
         ELSE NaN

\* Number(string): white space is trimmed, the empty string is 0, a run of
\* decimal digits is its value, and any other text of the model's alphabet
\* (letters, '#', '/', '_') is NaN.
StringToNumber(x) == ParseDigits(TrimRight(TrimLeft(x)), 0)

\* Number(value): null is 0, undefined is NaN
Number(c) ==
    CASE c.t = "num" -> c
      [] c.t = "str" -> StringToNumber(c.s)
      [] c.t = "null" -> Num(0)
      [] OTHER -> NaN

RECURSIVE NatToString(_)
NatToString(v) ==
    IF v < 10 THEN Digits[v + 1] ELSE NatToString(v \div 10) \o Digits[(v % 10) + 1]

\* String(value)
String(c) ==
    CASE c.t = "str" -> c.s
      [] c.t = "num" -> IF c.n < 0 THEN "-" \o NatToString(-c.n) ELSE NatToString(c.n)
      [] c.t = "nan" -> "NaN"
      [] OTHER -> "undefined"

LowerCase == <<"a", "b", "c", "d", "e", "f", "g", "h", "i", "j", "k", "l", "m",
               "n", "o", "p", "q", "r", "s", "t", "u", "v", "w", "x", "y", "z">>

UpperCase == <<"A", "B", "C", "D", "E", "F", "G", "H", "I", "J", "K", "L", "M",
               "N", "O", "P", "Q", "R", "S", "T", "U", "V", "W", "X", "Y", "Z">>

\* the letters' upper-case forms, as a table
UpperOf ==
    [ch \in {LowerCase[k] : k \in 1..26} |->
        UpperCase[CHOOSE k \in 1..26 : LowerCase[k] = ch]]

UpperChar(ch) == IF ch \in DOMAIN UpperOf THEN UpperOf[ch] ELSE ch

RECURSIVE toUpperCase(_)
toUpperCase(x) ==
    IF Len(x) = 0 THEN ""
    ELSE UpperChar(SubSeq(x, 1, 1)) \o toUpperCase(SubSeq(x, 2, Len(x)))

\* x.includes(code)
includes(x, code) ==
    \E k \in 1..(Len(x) - Len(code) + 1) : SubSeq(x, k, k + Len(code) - 1) = code

\* header.findIndex(h => h === label): a JavaScript index, or -1
findIndex(header, label) ==
    IF \E k \in 1..Len(header) : header[k] = Str(label)
    THEN (CHOOSE k \in 1..Len(header) :
            /\ header[k] = Str(label)
            /\ \A j \in 1..(k - 1) : header[j] # Str(label)) - 1
    ELSE -1

\* array.slice(from)
slice(row, from) == SubSeq(row, from + 1, Len(row))

\* array.splice(at, 1) on a row: the row without the cell at JavaScript index at
splice1(row, at) ==
    IF at >= 0 /\ at < Len(row)
    THEN SubSeq(row, 1, at) \o SubSeq(row, at + 2, Len(row))
    ELSE row

----------------------------------------------------------------------------
(* runInitialProcessing *)

\* Column Z of the raw sheet
zColRaw == 25

\* mutant: the filter runs over every row, the header included
ApplyOZ_AllRows(rawData, filter) ==
    IF filter = "OZ"
    THEN SelectSeq(rawData, LAMBDA row : At(row, zColRaw) = Str("ZRAX"))
    ELSE rawData

\* 2.1: the "Only ZRAX" filter
ApplyOZ(rawData, filter) ==
    IF filter = "OZ"
    THEN LET headerRow == IF Len(rawData) > 0 THEN rawData[1] ELSE <<>>
             dataRows == IF Len(rawData) > 1 THEN Tail(rawData) ELSE <<>>
             zraxOnlyData == SelectSeq(dataRows, LAMBDA row : At(row, zColRaw) = Str("ZRAX"))
         IN <<headerRow>> \o zraxOnlyData
    ELSE rawData

\* mutant: the set seen is not consulted
KeepRow_NoSeen(valA, seen) == ~isNaN(valA)

\* mutant: the isNaN test is missing
KeepRow_KeepNaN(valA, seen) == isNaN(valA) \/ valA.n \notin seen

\* the test of the loop body of 2.2
KeepRow(valA, seen) == ~isNaN(valA) /\ valA.n \notin seen

\* mutant: the row keeps its original first cell
CoercedRow_NoCoerce(row, valA) == row

\* the row pushed to uniqueData by the loop body of 2.2
CoercedRow(row, valA) == [row EXCEPT ![1] = valA]

\* 2.2: the loop over rawData[1..], with the set seen and the array uniqueData
RECURSIVE DedupLoop(_, _, _, _)
DedupLoop(rawData, i, seen, uniqueData) ==
    IF i >= Len(rawData) THEN uniqueData
    ELSE LET row == rawData[i + 1]
             valA == Number(At(row, 0))
         IN IF KeepRow(valA, seen)
            THEN DedupLoop(rawData, i + 1, seen \cup {valA.n},
                           Append(uniqueData, CoercedRow(row, valA)))
            ELSE DedupLoop(rawData, i + 1, seen, uniqueData)

\* mutant: the loop starts one row too late
UniqueData_SkipFirst(rawData) ==
    LET header == IF Len(rawData) > 0 THEN rawData[1] ELSE <<>>
    IN DedupLoop(rawData, 2, {}, <<header>>)

UniqueData(rawData) ==
    LET header == IF Len(rawData) > 0 THEN rawData[1] ELSE <<>>
    IN DedupLoop(rawData, 1, {}, <<header>>)

\* 2.3: delete columns B..G (indices 1 to 6)
DeleteColumns(row) == <<At(row, 0)>> \o slice(row, 7)

\* 2.4: rename column H (now at index 1) to "CTR"
RenameCTR(rawData) ==
    IF Len(rawData) > 0 /\ Len(rawData[1]) > 1
    THEN [rawData EXCEPT ![1][2] = Str("CTR")]
    ELSE rawData

\* steps 2.1 to 2.4
Normalize(rawData, filter) ==
    LET unique == UniqueData(ApplyOZ(rawData, filter))
    IN RenameCTR([k \in 1..Len(unique) |-> DeleteColumns(unique[k])])

\* 3: the map infoLookup (a function from the keys to the column-G cells)
RECURSIVE InfoLoop(_, _, _)
InfoLoop(infoData, i, infoLookup) ==
    IF i >= Len(infoData) THEN infoLookup
    ELSE LET row == infoData[i + 1]
             key == Number(At(row, 1))
         IN IF ~isNaN(key) /\ key.n \notin DOMAIN infoLookup
            THEN InfoLoop(infoData, i + 1, infoLookup @@ (key.n :> At(row, 6)))
            ELSE InfoLoop(infoData, i + 1, infoLookup)

InfoLookup(infoData) == InfoLoop(infoData, 1, <<>>)

\* 4: the set dupLookup
DupLookup(dupData) ==
    {Number(At(dupData[k], 6)).n :
        k \in {j \in 2..Len(dupData) : ~isNaN(Number(At(dupData[j], 6)))}}

\* mutant: || in place of ??, so that a falsy cell becomes '#N/A'
InfoValue_Or(infoLookup, key) ==
    IF key.t = "num" /\ key.n \in DOMAIN infoLookup /\ Truthy(infoLookup[key.n])
    THEN infoLookup[key.n]
    ELSE Str("#N/A")

\* infoLookup.get(key) ?? '#N/A'
InfoValue(infoLookup, key) ==
    IF key.t = "num" /\ key.n \in DOMAIN infoLookup /\ infoLookup[key.n].t # "undef"
    THEN infoLookup[key.n]
    ELSE Str("#N/A")

\* mutant: the two branches of the conditional are swapped
DupValue_Inverted(dupLookup, key) ==
    IF key.t = "num" /\ key.n \in dupLookup THEN Str("#N/A") ELSE key

\* dupLookup.has(key) ? key : '#N/A'
DupValue(dupLookup, key) ==
    IF key.t = "num" /\ key.n \in dupLookup THEN key ELSE Str("#N/A")

\* 5: the two VLOOKUP columns
Enrich(rawData, infoLookup, dupLookup) ==
    [index \in 1..Len(rawData) |->
        IF index = 1
        THEN rawData[index] \o <<Str("Info_VLOOKUP"), Str("Dup_VLOOKUP")>>
        ELSE LET key == At(rawData[index], 0)
             IN rawData[index] \o <<InfoValue(infoLookup, key), DupValue(dupLookup, key)>>]

runInitialProcessing(raw, info, dup, filter) ==
    Enrich(Normalize(raw, filter), InfoLookup(info), DupLookup(dup))

----------------------------------------------------------------------------
(* assignAndGenerateExcel *)

specialCodes == {"RU", "UA", "NI", "VE", "BY", "CU", "IR", "KP", "SY"}

\* Original Col Z (index 25) is now at 19 after removing B-G (6 cols)
zColIndex == 19

\* the upper-cased info value the categoriser tests
UpperInfo(cell) == IF Truthy(cell) THEN toUpperCase(String(cell)) ELSE ""

\* mutant: JP is tested before CN
Category_JPFirst(cell) ==
    LET infoValue == UpperInfo(cell)
    IN IF includes(infoValue, "JP") THEN "JP"
       ELSE IF includes(infoValue, "CN") THEN "CN"
       ELSE IF \E code \in specialCodes : includes(infoValue, code) THEN "SPECIAL"
       ELSE "GENERAL"

\* the if / else-if chain of processAndAssign's forEach
Category(cell) ==
    LET infoValue == UpperInfo(cell)
    IN IF includes(infoValue, "CN") THEN "CN"
       ELSE IF includes(infoValue, "JP") THEN "JP"
       ELSE IF \E code \in specialCodes : includes(infoValue, code) THEN "SPECIAL"
       ELSE "GENERAL"

\* mutant: the cycle starts at the second name
Owner_OffByOne(names, index, sentinel) ==
    IF Len(names) > 0 THEN Str(names[((index + 1) % Len(names)) + 1]) ELSE Str(sentinel)

\* mutant: no sentinel, names[index % 0] is unshifted for an empty list
Owner_NoSentinel(names, index, sentinel) ==
    IF Len(names) > 0 THEN Str(names[(index % Len(names)) + 1]) ELSE Undef

\* the name unshifted onto the row at position index of a bucket
Owner(names, index, sentinel) ==
    IF Len(names) > 0 THEN Str(names[(index % Len(names)) + 1]) ELSE Str(sentinel)

\* one bucket: the copies of the rows of the category, each with its owner unshifted
Bucket(rowsToAssign, infoLookupIndex, category, names, sentinel) ==
    LET rows == SelectSeq(rowsToAssign,
                          LAMBDA row : Category(At(row, infoLookupIndex)) = category)
    IN [index \in 1..Len(rows) |-> <<Owner(names, index - 1, sentinel)>> \o rows[index]]

\* mutant: a missing Info_VLOOKUP label is not checked, row[-1] is undefined
processAndAssign_NoCheck(rowsToAssign, header, cn, jp, special, general) ==
    LET infoLookupIndex == findIndex(header, "Info_VLOOKUP")
    IN [threw |-> FALSE,
        rowsToAssign |-> rowsToAssign,
        cnRows |-> Bucket(rowsToAssign, infoLookupIndex, "CN", cn, "UNASSIGNED_CN"),
        jpRows |-> Bucket(rowsToAssign, infoLookupIndex, "JP", jp, "UNASSIGNED_JP"),
        specialRows |-> Bucket(rowsToAssign, infoLookupIndex, "SPECIAL", special,
                               "UNASSIGNED_SPECIAL"),
        generalRows |-> Bucket(rowsToAssign, infoLookupIndex, "GENERAL", general,
                               "UNASSIGNED_GENERAL")]

\* processAndAssign: threw, or the four buckets of rowsToAssign
processAndAssign(rowsToAssign, header, cn, jp, special, general) ==
    LET infoLookupIndex == findIndex(header, "Info_VLOOKUP")
    IN IF infoLookupIndex = -1
       THEN [threw |-> TRUE, rowsToAssign |-> rowsToAssign, cnRows |-> <<>>,
             jpRows |-> <<>>, specialRows |-> <<>>, generalRows |-> <<>>]
       ELSE [threw |-> FALSE,
             rowsToAssign |-> rowsToAssign,
             cnRows |-> Bucket(rowsToAssign, infoLookupIndex, "CN", cn, "UNASSIGNED_CN"),
             jpRows |-> Bucket(rowsToAssign, infoLookupIndex, "JP", jp, "UNASSIGNED_JP"),
             specialRows |-> Bucket(rowsToAssign, infoLookupIndex, "SPECIAL", special,
                                    "UNASSIGNED_SPECIAL"),
             generalRows |-> Bucket(rowsToAssign, infoLookupIndex, "GENERAL", general,
                                    "UNASSIGNED_GENERAL")]

\* mutant: the GENERAL rows are spread first
AssignedRows_GeneralFirst(p) == p.generalRows \o p.cnRows \o p.jpRows \o p.specialRows

\* the array processAndAssign returns
AssignedRows(p) == p.cnRows \o p.jpRows \o p.specialRows \o p.generalRows

\* the test of the ZOP forEach: the row goes to zraxRows
IsZraxRow(row) == Len(row) > zColIndex /\ At(row, zColIndex) = Str("ZRAX")

\* mutant: the filter keeps every row
FilteredRows_All(dataRows, dupLookupIndex) == dataRows

\* 1: keep only the rows with '#N/A' in 'Dup_VLOOKUP'
FilteredRows(dataRows, dupLookupIndex) ==
    SelectSeq(dataRows, LAMBDA row : At(row, dupLookupIndex) = Str("#N/A"))

\* mutant: the else of the ZOP forEach is missing, every row is also pushed to otherRows
Partitions_NoElse(filteredRows, header, cn, jp, special, general, filter) ==
    IF filter = "ZOP"
    THEN <<processAndAssign(SelectSeq(filteredRows, IsZraxRow), header, cn, jp, special,
                            general),
           processAndAssign(filteredRows, header, cn, jp, special, general)>>
    ELSE <<processAndAssign(filteredRows, header, cn, jp, special, general)>>

\* the calls of processAndAssign, in order
Partitions(filteredRows, header, cn, jp, special, general, filter) ==
    IF filter = "ZOP"
    THEN LET zraxRows == SelectSeq(filteredRows, IsZraxRow)
             otherRows == SelectSeq(filteredRows, LAMBDA row : ~IsZraxRow(row))
         IN <<processAndAssign(zraxRows, header, cn, jp, special, general),
              processAndAssign(otherRows, header, cn, jp, special, general)>>
    ELSE <<processAndAssign(filteredRows, header, cn, jp, special, general)>>

RECURSIVE Concat(_)
Concat(seqs) == IF Len(seqs) = 0 THEN <<>> ELSE Head(seqs) \o Concat(Tail(seqs))

\* Collation order of the characters of the model's alphabet under
\* String.prototype.localeCompare: white space, punctuation, digits, letters.
CollationOrder == <<" ", "_", "-", "/", "#",
                    "0", "1", "2", "3", "4", "5", "6", "7", "8", "9",
                    "a", "b", "c", "d", "e", "f", "g", "h", "i", "j", "k", "l", "m",
                    "n", "o", "p", "q", "r", "s", "t", "u", "v", "w", "x", "y", "z">>

LowerOf ==
    [ch \in {UpperCase[k] : k \in 1..26} |->
        LowerCase[CHOOSE k \in 1..26 : UpperCase[k] = ch]]

LowerChar(ch) == IF ch \in DOMAIN LowerOf THEN LowerOf[ch] ELSE ch

\* primary weights: the rank of the letter, whatever its case
PrimaryOf ==
    [ch \in {CollationOrder[k] : k \in 1..Len(CollationOrder)} |->
        CHOOSE k \in 1..Len(CollationOrder) : CollationOrder[k] = ch]

Primary(ch) == IF LowerChar(ch) \in DOMAIN PrimaryOf THEN PrimaryOf[LowerChar(ch)] ELSE 0

\* tertiary weight: a lower-case letter sorts before its upper-case form
Tertiary(ch) == IF LowerChar(ch) = ch THEN 0 ELSE 1

\* comparison by primary weights from position k on; a prefix sorts first
RECURSIVE ComparePrimary(_, _, _)
ComparePrimary(a, b, k) ==
    IF k > Len(a) /\ k > Len(b) THEN 0
    ELSE IF k > Len(a) THEN -1
    ELSE IF k > Len(b) THEN 1
    ELSE LET wa == Primary(SubSeq(a, k, k))
             wb == Primary(SubSeq(b, k, k))
         IN IF wa < wb THEN -1 ELSE IF wa > wb THEN 1 ELSE ComparePrimary(a, b, k + 1)

\* comparison by tertiary weights of two strings with equal primary weights
RECURSIVE CompareTertiary(_, _, _)
CompareTertiary(a, b, k) ==
    IF k > Len(a) \/ k > Len(b) THEN 0
    ELSE LET wa == Tertiary(SubSeq(a, k, k))
             wb == Tertiary(SubSeq(b, k, k))
         IN IF wa < wb THEN -1 ELSE IF wa > wb THEN 1 ELSE CompareTertiary(a, b, k + 1)

\* a.localeCompare(b): negative, zero or positive
localeCompare(a, b) ==
    LET primary == ComparePrimary(a, b, 1)
    IN IF primary # 0 THEN primary ELSE CompareTertiary(a, b, 1)

\* screenerCounts: the distinct first cells, in order of first occurrence
RECURSIVE ScreenerKeys(_, _)
ScreenerKeys(rows, keys) ==
    IF Len(rows) = 0 THEN keys
    ELSE LET screener == At(Head(rows), 0)
         IN IF \E k \in 1..Len(keys) : keys[k] = screener
            THEN ScreenerKeys(Tail(rows), keys)
            ELSE ScreenerKeys(Tail(rows), Append(keys, screener))

\* mutant: the count is set to 1 instead of being incremented
ScreenerCount_One(rows, screener) == 1

ScreenerCount(rows, screener) ==
    Cardinality({k \in 1..Len(rows) : At(rows[k], 0) = screener})

\* mutant: the entries are left in the order of the map
SortPivot_NoSort(entries, sorted) == entries

\* Array.prototype.sort with the localeCompare comparator (stable): insertion
RECURSIVE SortPivot(_, _)
SortPivot(entries, sorted) ==
    IF Len(entries) = 0 THEN sorted
    ELSE LET e == Head(entries)
             before == {k \in 1..Len(sorted) :
                          localeCompare(sorted[k].screener, e.screener) <= 0}
             at == IF before = {} THEN 0 ELSE CHOOSE k \in before : \A j \in before : j <= k
         IN SortPivot(Tail(entries),
                      SubSeq(sorted, 1, at) \o <<e>> \o SubSeq(sorted, at + 1, Len(sorted)))

PivotData(finalAssignedRows) ==
    LET keys == ScreenerKeys(finalAssignedRows, <<>>)
        entries == [k \in 1..Len(keys) |->
                      [screener |-> String(keys[k]),
                       count |-> ScreenerCount(finalAssignedRows, keys[k])]]
    IN SortPivot(entries, <<>>)

\* mutant: the rows are spliced at ctrIndex, the shift by 'Screener' forgotten
FinalSheet_NoShift(header, finalAssignedRows) ==
    LET ctrIndex == findIndex(header, "CTR")
        newHeader == IF ctrIndex # -1 THEN splice1(header, ctrIndex) ELSE header
        rows == IF ctrIndex # -1
                THEN [k \in 1..Len(finalAssignedRows) |->
                        splice1(finalAssignedRows[k], ctrIndex)]
                ELSE finalAssignedRows
    IN <<(<<Str("Screener")>> \o newHeader)>> \o rows

\* mutant: the CTR cell is removed from the header only
FinalSheet_RowsKept(header, finalAssignedRows) ==
    LET ctrIndex == findIndex(header, "CTR")
        newHeader == IF ctrIndex # -1 THEN splice1(header, ctrIndex) ELSE header
    IN <<(<<Str("Screener")>> \o newHeader)>> \o finalAssignedRows

\* 5.1 and 5.2: remove the 'CTR' column and prepend 'Screener'
FinalSheet(header, finalAssignedRows) ==
    LET ctrIndex == findIndex(header, "CTR")
        newHeader == IF ctrIndex # -1 THEN splice1(header, ctrIndex) ELSE header
        rows == IF ctrIndex # -1
                THEN [k \in 1..Len(finalAssignedRows) |->
                        splice1(finalAssignedRows[k], ctrIndex + 1)]
                ELSE finalAssignedRows
    IN <<(<<Str("Screener")>> \o newHeader)>> \o rows

\* Dashboard: the Grand Total, data.reduce((sum, item) => sum + item.count, 0)
RECURSIVE total(_)
total(data) == IF Len(data) = 0 THEN 0 ELSE Head(data).count + total(Tail(data))

Thrown == [threw |-> TRUE, partitions |-> <<>>, finalSheetData |-> <<>>, pivotData |-> <<>>]

assignAndGenerateExcel(data, cn, jp, special, general, filter) ==
    LET header == IF Len(data) > 0 THEN data[1] ELSE <<>>
    IN IF Len(data) < 2
       THEN [threw |-> FALSE, partitions |-> <<>>, finalSheetData |-> <<header>>,
             pivotData |-> <<>>]
       ELSE LET dataRows == Tail(data)
                dupLookupIndex == findIndex(header, "Dup_VLOOKUP")
            IN IF dupLookupIndex = -1 THEN Thrown
               ELSE LET filteredRows == FilteredRows(dataRows, dupLookupIndex)
                        parts == Partitions(filteredRows, header, cn, jp, special,
                                            general, filter)
                        finalAssignedRows ==
                            Concat([k \in 1..Len(parts) |-> AssignedRows(parts[k])])
                    IN IF \E k \in 1..Len(parts) : parts[k].threw THEN Thrown
                       ELSE [threw |-> FALSE,
                             partitions |-> parts,
                             finalSheetData |-> FinalSheet(header, finalAssignedRows),
                             pivotData |-> PivotData(finalAssignedRows)]

\* mutant: the rows are pushed as they are, without [...row]
InputRowAfter_Shared(row, assigned) == assigned

\* cnRows.push([...row]): a bucket holds copies, so the row of processedData is
\* not the array the owner is unshifted onto and the CTR cell is spliced from
InputRowAfter(row, assigned) == row

\* const header = [...processedData[0]]: the header edited is a copy as well
InputHeaderAfter(header, finalHeader) == header

\* processedData as the call leaves it: result is what the call computed
InputAfter(data, result) ==
    IF result.threw \/ Len(data) < 2 THEN data
    ELSE [k \in 1..Len(data) |->
            IF k = 1 THEN InputHeaderAfter(data[1], result.finalSheetData[1])
            ELSE LET assigned == {r \in 2..Len(result.finalSheetData) :
                                    At(result.finalSheetData[r], 1) = At(data[k], 0)}
                 IN IF assigned = {} THEN data[k]
                    ELSE InputRowAfter(data[k],
                                       result.finalSheetData[CHOOSE r \in assigned : TRUE])]

----------------------------------------------------------------------------
(* The earlier implementations of assignAndGenerateExcel: src/unnamed/part_002
   and src/services/excelProcessor.ts.  Neither has a filter mode. *)

specialCodesFive == {"RU", "UA", "NI", "VE", "BY"}

\* the if / else-if chain of the forEach over filteredRows
CategoryFive(cell) ==
    LET infoValue == UpperInfo(cell)
    IN IF includes(infoValue, "CN") THEN "CN"
       ELSE IF includes(infoValue, "JP") THEN "JP"
       ELSE IF \E code \in specialCodesFive : includes(infoValue, code) THEN "SPECIAL"
       ELSE "GENERAL"

\* one bucket: the rows of the category, each with its owner unshifted
BucketFive(filteredRows, infoLookupIndex, category, names, sentinel) ==
    LET rows == SelectSeq(filteredRows,
                          LAMBDA row : CategoryFive(At(row, infoLookupIndex)) = category)
    IN [index \in 1..Len(rows) |-> <<Owner(names, index - 1, sentinel)>> \o rows[index]]

\* steps 2 and 3: the four buckets of filteredRows
BucketsFive(filteredRows, infoLookupIndex, cn, jp, special, general) ==
    [threw |-> FALSE,
     rowsToAssign |-> filteredRows,
     cnRows |-> BucketFive(filteredRows, infoLookupIndex, "CN", cn, "UNASSIGNED_CN"),
     jpRows |-> BucketFive(filteredRows, infoLookupIndex, "JP", jp, "UNASSIGNED_JP"),
     specialRows |-> BucketFive(filteredRows, infoLookupIndex, "SPECIAL", special,
                                "UNASSIGNED_SPECIAL"),
     generalRows |-> BucketFive(filteredRows, infoLookupIndex, "GENERAL", general,
                                "UNASSIGNED_GENERAL")]

\* src/unnamed/part_002: header and rows are copies, the CTR column stays
assignAndGenerateExcelPart002(data, cn, jp, special, general) ==
    LET header == IF Len(data) > 0 THEN data[1] ELSE <<>>
    IN IF Len(data) < 2
       THEN [threw |-> FALSE, partitions |-> <<>>, finalSheetData |-> <<header>>,
             pivotData |-> <<>>]
       ELSE LET dupLookupIndex == findIndex(header, "Dup_VLOOKUP")
                infoLookupIndex == findIndex(header, "Info_VLOOKUP")
                filteredRows == FilteredRows(Tail(data), dupLookupIndex)
                buckets == BucketsFive(filteredRows, infoLookupIndex, cn, jp, special,
                                       general)
                finalAssignedRows == AssignedRows(buckets)
            IN IF dupLookupIndex = -1 \/ infoLookupIndex = -1 THEN Thrown
               ELSE [threw |-> FALSE,
                     partitions |-> <<buckets>>,
                     finalSheetData |-> <<(<<Str("Screener")>> \o header)>>
                                          \o finalAssignedRows,
                     pivotData |-> PivotData(finalAssignedRows)]

\* src/services/excelProcessor.ts: header is processedData[0] itself and the rows
\* are pushed as they are; the call returns the file only, no pivot
assignAndGenerateExcelService(data, cn, jp, special, general) ==
    IF Len(data) < 2
    THEN [threw |-> FALSE, partitions |-> <<>>, finalSheetData |-> data, pivotData |-> <<>>]
    ELSE LET header == data[1]
             dupLookupIndex == findIndex(header, "Dup_VLOOKUP")
             infoLookupIndex == findIndex(header, "Info_VLOOKUP")
             filteredRows == FilteredRows(Tail(data), dupLookupIndex)
             buckets == BucketsFive(filteredRows, infoLookupIndex, cn, jp, special,
                                    general)
         IN IF dupLookupIndex = -1 \/ infoLookupIndex = -1 THEN Thrown
            ELSE [threw |-> FALSE,
                  partitions |-> <<buckets>>,
                  finalSheetData |-> <<(<<Str("Screener")>> \o header)>>
                                       \o AssignedRows(buckets),
                  pivotData |-> <<>>]

\* processedData as the call of src/services/excelProcessor.ts leaves it:
\* header.unshift('Screener') and row.unshift(owner) act on the caller's arrays
InputAfterService(data, result) ==
    IF result.threw \/ Len(data) < 2 THEN data
    ELSE [k \in 1..Len(data) |->
            IF k = 1 THEN result.finalSheetData[1]
            ELSE LET assigned == {r \in 2..Len(result.finalSheetData) :
                                    Tail(result.finalSheetData[r]) = data[k]}
                 IN IF assigned = {} THEN data[k]
                    ELSE result.finalSheetData[CHOOSE r \in assigned : TRUE]]

----------------------------------------------------------------------------
(* The inputs: three decoded sheets, a filter mode and four name lists *)

MaxRows == 3            \* data rows of the raw sheet
MaxLookupRows == 2      \* data rows of the info sheet and of the duplicate sheet
MaxNames == 2           \* names of an assignee list

Filters == {"NONE", "ZOP", "OZ"}

\* widths of the raw sheet: A..H, A..Y and A..Z
Widths == {8, zColRaw, zColRaw + 1}

\* widths of a raw sheet without column H: A only, and A..G
NarrowWidths == {1, 7}

\* a sheet that reaches column Z
FullWidth == zColRaw + 1

SeqsUpTo(S, n) == UNION {[1..k -> S] : k \in 0..n}

RawHeader(width) == [k \in 1..width |-> Str(UpperCase[k])]

\* a raw data row: the key cell in column A, the flag cell in column Z and the
\* lower-case column letter in every other column
RawRow(keyCell, flag, width) ==
    [k \in 1..width |->
        IF k = 1 THEN keyCell ELSE IF k = zColRaw + 1 THEN Str(flag) ELSE Str(LowerCase[k])]

\* cells: a sequence of <<key cell, flag>> pairs
RawTable(cells, width) ==
    <<RawHeader(width)>> \o [k \in 1..Len(cells) |-> RawRow(cells[k][1], cells[k][2], width)]

\* an info sheet (columns A..G) from <<column-B cell, column-G cell>> pairs
InfoTable(cells) ==
    <<RawHeader(7)>> \o
    [k \in 1..Len(cells) |->
        <<Str("a"), cells[k][1], Str("c"), Str("d"), Str("e"), Str("f"), cells[k][2]>>]

\* a duplicate sheet (columns A..G) from column-G cells
DupTable(cells) ==
    <<RawHeader(7)>> \o
    [k \in 1..Len(cells) |->
        <<Str("a"), Str("b"), Str("c"), Str("d"), Str("e"), Str("f"), cells[k]>>]

KeyCells == {Num(5), Num(7), Str("abc"), Str("7")}
Flags == {"ZRAX", "z"}
InfoKeyCells == {Num(5), Str("7"), Str("x")}
InfoCells == {Str("CN"), Str(""), Str("ZRAX")}
DupCells == {Num(5), Str("7"), Str("x"), Str("")}

\* info values for the categoriser; "-" stands for "no info row for the key"
CategoryValues == {"CN", "cn", "xCnx", "JPCN", "cnRU", "JP", "jp", "jPru", "syJP",
                   "RU", "ua", "Ni", "vE", "BY", "cu", "IR", "kp", "SY", "xIRx",
                   "US", "C N", "J", "N/A", "", "-"}
AssignValues == {"CN", "jp", "ru", "US"}
FlaggedValues == {"CN", "ru", "US"}

\* names as the dialog's text areas give them, in any letter case
PivotNames == {"bob", "Cy", "al"}
PivotValues == <<"CN", "US", "jp", "US">>

\* the name pools; a list is a prefix of its bucket's pool
cnPool == <<"Alice", "Bob", "Cy", "Dee">>
jpPool == <<"Bob", "Cy", "Dee", "Alice">>
specialPool == <<"Cy", "Dee", "Alice", "Bob">>
generalPool == <<"Dee", "Alice", "Bob", "Cy">>

Prefix(pool, n) == SubSeq(pool, 1, n)

DefaultInfo == InfoTable(<< <<Num(5), Str("CN")>>, <<Num(7), Str("jp")>> >>)
DefaultDup == DupTable(<<Num(9)>>)
DefaultRaw(width) ==
    RawTable(<< <<Num(5), "ZRAX">>, <<Num(7), "z">>, <<Num(9), "ZRAX">> >>, width)

\* the info sheet giving the k-th key the k-th value
InfoFor(values) ==
    InfoTable(SelectSeq([k \in 1..Len(values) |-> <<Num(k), Str(values[k])>>],
                        LAMBDA c : c[2] # Str("-")))

\* AssignerPage after its useState calls.  files says which of the three files
\* are chosen ("null" for none) and whether their workbook holds its worksheet
\* ("ok") or not ("corrupt"); error is "null" or "set"; inFlight is the filter argument of the
\* runInitialProcessing call the page awaits ("-" when none), assigning that of
\* the assignAndGenerateExcel call; producedWith is the filter argument of the
\* call that gave processedData; readable says whether the workbooks of the
\* call in flight hold their worksheets and writable whether XLSX.write and
\* saveAs return
PageIdle ==
    [isLoading |-> FALSE, isAssigning |-> FALSE, error |-> "null",
     showAssignmentModal |-> FALSE, showDashboard |-> FALSE,
     inFlight |-> "-", assigning |-> "-", producedWith |-> "-",
     files |-> [raw |-> "null", info |-> "null", duplicate |-> "null"],
     failedAttempts |-> 0, readable |-> TRUE, writable |-> TRUE]

\* ColumnAProcessor before processColumnA returned (processedData is null)
ColumnAIdle == [returned |-> FALSE, uniqueNumbers |-> <<>>]

\* AssignmentModal after its useState calls
ModalIdle == [cnNames |-> "", jpNames |-> "", specialNames |-> "", generalNames |-> ""]

Idle ==
    /\ page = PageIdle
    /\ modal = ModalIdle
    /\ columnAFile = <<>>
    /\ columnAResult = ColumnAIdle
    /\ pc = "uploaded"
    /\ normalizedData = <<>>
    /\ processedData = <<>>
    /\ partitions = <<>>
    /\ finalSheetData = <<>>
    /\ pivotData = <<>>

Names(lcn, ljp, lspecial, lgeneral) ==
    /\ cnAssignees = Prefix(cnPool, lcn)
    /\ jpAssignees = Prefix(jpPool, ljp)
    /\ specialAssignees = Prefix(specialPool, lspecial)
    /\ generalAssignees = Prefix(generalPool, lgeneral)

DefaultNames == Names(2, 1, 0, 2)

\* key cells vary, and flags under the two flag-aware modes
InitKeys ==
    \E filter \in Filters :
      \E cells \in SeqsUpTo(KeyCells \X (IF filter = "NONE" THEN {"z"} ELSE Flags), MaxRows) :
        /\ rawFile = RawTable(cells, FullWidth)
        /\ infoFile = DefaultInfo
        /\ dupFile = DefaultDup
        /\ zraxFilter = filter
        /\ DefaultNames
        /\ Idle

\* the info sheet and the width of the raw sheet vary
InitInfo ==
    \E cells \in SeqsUpTo(InfoKeyCells \X InfoCells, MaxLookupRows),
       filter \in Filters, width \in Widths :
        /\ rawFile = DefaultRaw(width)
        /\ infoFile = InfoTable(cells)
        /\ dupFile = DefaultDup
        /\ zraxFilter = filter
        /\ DefaultNames
        /\ Idle

\* the duplicate sheet varies
InitDup ==
    \E cells \in SeqsUpTo(DupCells, MaxLookupRows), filter \in Filters :
        /\ rawFile = DefaultRaw(FullWidth)
        /\ infoFile = DefaultInfo
        /\ dupFile = DupTable(cells)
        /\ zraxFilter = filter
        /\ DefaultNames
        /\ Idle

\* one data row, its info value varies
InitCategory ==
    \E value \in CategoryValues, filter \in Filters :
        /\ rawFile = RawTable(<< <<Num(1), "ZRAX">> >>, FullWidth)
        /\ infoFile = InfoFor(<<value>>)
        /\ dupFile = DefaultDup
        /\ zraxFilter = filter
        /\ DefaultNames
        /\ Idle

\* categories and flags vary under PRIORITIZE-FLAGGED; lists of one length
InitAssignFlagged ==
    \E cells \in SeqsUpTo(FlaggedValues \X Flags, MaxRows),
       filter \in {"ZOP"}, len \in 0..MaxNames :
        /\ rawFile = RawTable([k \in 1..Len(cells) |-> <<Num(k), cells[k][2]>>], FullWidth)
        /\ infoFile = InfoFor([k \in 1..Len(cells) |-> cells[k][1]])
        /\ dupFile = DefaultDup
        /\ zraxFilter = filter
        /\ Names(len, len, len, len)
        /\ Idle

\* categories and the lengths of the lists vary; every row is flagged
InitAssign ==
    \E values \in SeqsUpTo(AssignValues, MaxRows), filter \in {"NONE", "OZ"},
       len1 \in 0..MaxNames, len2 \in 0..MaxNames :
        /\ rawFile = RawTable([k \in 1..Len(values) |-> <<Num(k), "ZRAX">>], FullWidth)
        /\ infoFile = InfoFor(values)
        /\ dupFile = DefaultDup
        /\ zraxFilter = filter
        /\ Names(len1, len2, len1, len2)
        /\ Idle

\* the scenario of the specification: keys 5, 5, abc, 7; no info row for key 5;
\* key 7 in the duplicate sheet
InitScenario ==
    \E filter \in Filters :
        /\ rawFile = RawTable(<< <<Num(5), "z">>, <<Num(5), "ZRAX">>,
                                 <<Str("abc"), "z">>, <<Num(7), "z">> >>, FullWidth)
        /\ infoFile = InfoTable(<< <<Num(7), Str("CN")>> >>)
        /\ dupFile = DupTable(<<Num(7)>>)
        /\ zraxFilter = filter
        /\ DefaultNames
        /\ Idle

\* a first sheet with no row at all
InitEmpty ==
    \E filter \in Filters :
        /\ rawFile = <<>>
        /\ infoFile = DefaultInfo
        /\ dupFile = DefaultDup
        /\ zraxFilter = filter
        /\ DefaultNames
        /\ Idle

\* names of mixed letter case in the CN and the GENERAL list; rows CN, US, jp, US
InitPivot ==
    \E cn \in SeqsUpTo(PivotNames, MaxNames), general \in SeqsUpTo(PivotNames, MaxNames) :
        /\ rawFile = RawTable([k \in 1..Len(PivotValues) |-> <<Num(k), "z">>], FullWidth)
        /\ infoFile = InfoFor(PivotValues)
        /\ dupFile = DefaultDup
        /\ zraxFilter = "NONE"
        /\ cnAssignees = cn
        /\ jpAssignees = <<>>
        /\ specialAssignees = <<>>
        /\ generalAssignees = general
        /\ Idle

\* raw sheets that end before column H
InitNarrow ==
    \E width \in NarrowWidths, filter \in Filters :
        /\ rawFile = DefaultRaw(width)
        /\ infoFile = DefaultInfo
        /\ dupFile = DefaultDup
        /\ zraxFilter = filter
        /\ DefaultNames
        /\ Idle

\* empty cells: a raw row without a key, an info row without a key in column B,
\* a duplicate row without a key in column G (sheet_to_json gives them "")
InitBlank ==
    \E cells \in SeqsUpTo({Str(""), Num(0), Num(5)}, MaxLookupRows) :
        /\ rawFile = RawTable([k \in 1..Len(cells) |-> <<cells[k], "z">>], FullWidth)
        /\ infoFile = InfoTable(<< <<Str(""), Str("CN")>> >>)
        /\ dupFile = DupTable(<<Str("")>>)
        /\ zraxFilter = "NONE"
        /\ DefaultNames
        /\ Idle

Init ==
    \/ InitBlank
    \/ InitNarrow
    \/ InitPivot
    \/ InitKeys
    \/ InitInfo
    \/ InitDup
    \/ InitCategory
    \/ InitAssignFlagged
    \/ InitAssign
    \/ InitScenario
    \/ InitEmpty

----------------------------------------------------------------------------
(* The two steps of the page: Process, then Assign *)

Process ==
    /\ pc = "uploaded"
    /\ normalizedData' = Normalize(rawFile, zraxFilter)
    /\ processedData' = runInitialProcessing(rawFile, infoFile, dupFile, zraxFilter)
    /\ pc' = "processed"
    /\ UNCHANGED <<rawFile, infoFile, dupFile, zraxFilter, cnAssignees, jpAssignees,
                   specialAssignees, generalAssignees, partitions, finalSheetData,
                   pivotData>>
    /\ UNCHANGED <<page, modal, columnAFile, columnAResult>>

Assign ==
    /\ pc = "processed"
    /\ LET result == assignAndGenerateExcel(processedData, cnAssignees, jpAssignees,
                                            specialAssignees, generalAssignees, zraxFilter)
       IN /\ pc' = IF result.threw THEN "failed" ELSE "assigned"
          /\ partitions' = result.partitions
          /\ finalSheetData' = result.finalSheetData
          /\ pivotData' = result.pivotData
          /\ processedData' = InputAfter(processedData, result)
    /\ UNCHANGED <<rawFile, infoFile, dupFile, zraxFilter, cnAssignees, jpAssignees,
                   specialAssignees, generalAssignees, normalizedData>>
    /\ UNCHANGED <<page, modal, columnAFile, columnAResult>>

Next == Process \/ Assign

\* the assignment step of a page built on src/unnamed/part_002
AssignPart002 ==
    /\ pc = "processed"
    /\ zraxFilter = "NONE"
    /\ LET result == assignAndGenerateExcelPart002(processedData, cnAssignees, jpAssignees,
                                                   specialAssignees, generalAssignees)
       IN /\ pc' = IF result.threw THEN "failed" ELSE "assigned"
          /\ partitions' = result.partitions
          /\ finalSheetData' = result.finalSheetData
          /\ pivotData' = result.pivotData
    /\ UNCHANGED <<rawFile, infoFile, dupFile, zraxFilter, cnAssignees, jpAssignees,
                   specialAssignees, generalAssignees, normalizedData, processedData>>
    /\ UNCHANGED <<page, modal, columnAFile, columnAResult>>

\* the assignment step of src/App.tsx, built on src/services/excelProcessor.ts
AssignService ==
    /\ pc = "processed"
    /\ zraxFilter = "NONE"
    /\ LET result == assignAndGenerateExcelService(processedData, cnAssignees, jpAssignees,
                                                   specialAssignees, generalAssignees)
       IN /\ pc' = IF result.threw THEN "failed" ELSE "assigned"
          /\ partitions' = result.partitions
          /\ finalSheetData' = result.finalSheetData
          /\ pivotData' = result.pivotData
          /\ processedData' = InputAfterService(processedData, result)
    /\ UNCHANGED <<rawFile, infoFile, dupFile, zraxFilter, cnAssignees, jpAssignees,
                   specialAssignees, generalAssignees, normalizedData>>
    /\ UNCHANGED <<page, modal, columnAFile, columnAResult>>

MaxFailedAttempts == 2

\* handleFinalizeDownload of src/App.tsx when XLSX.write (excelProcessor.ts line
\* 220) or saveAs (App.tsx line 72) throws: the catch keeps the dialog open for
\* a retry, on the table as the call left it
AssignServiceFails ==
    /\ pc = "processed"
    /\ zraxFilter = "NONE"
    /\ page.failedAttempts < MaxFailedAttempts
    /\ LET result == assignAndGenerateExcelService(processedData, cnAssignees, jpAssignees,
                                                   specialAssignees, generalAssignees)
       IN processedData' = InputAfterService(processedData, result)
    /\ page' = [page EXCEPT !.failedAttempts = page.failedAttempts + 1, !.error = "set"]
    /\ UNCHANGED <<rawFile, infoFile, dupFile, zraxFilter, cnAssignees, jpAssignees,
                   specialAssignees, generalAssignees, pc, normalizedData, partitions,
                   finalSheetData, pivotData, modal, columnAFile, columnAResult>>

InitService == InitAssign /\ zraxFilter = "NONE"

\* src/App.tsx on src/services/excelProcessor.ts
NextService == Process \/ AssignService \/ AssignServiceFails

SpecService == InitService /\ [][NextService]_vars

\* the three implementations of the assignment under src/
NextImplementations == Process \/ Assign \/ AssignPart002 \/ AssignService

SpecImplementations == Init /\ [][NextImplementations]_vars

Spec == Init /\ [][Next]_vars

----------------------------------------------------------------------------
(* AssignerPage and its AssignmentModal (src/components/FileUploader.tsx,    *)
(* src/components/AssignmentModal.tsx).  processedData is the page's         *)
(* processedDataForAssignment (<<>> for null), pivotData and zraxFilter its  *)
(* states of the same name; pc, the position of the two-step pipeline of     *)
(* Spec, is not used: the page's position is in its flags.  The four name    *)
(* lists are the arguments of onAssign while the call runs.  The file goes   *)
(* to saveAs and is not kept.                                                *)

IsSeparator(ch) == IsSpace(ch) \/ ch = ","

RECURSIVE SkipSeparators(_)
SkipSeparators(x) ==
    IF Len(x) > 0 /\ IsSeparator(SubSeq(x, 1, 1))
    THEN SkipSeparators(SubSeq(x, 2, Len(x))) ELSE x

\* nameString.split(/[\s,]+/): piece is the piece being read
RECURSIVE split(_, _)
split(x, piece) ==
    IF Len(x) = 0 THEN <<piece>>
    ELSE IF IsSeparator(SubSeq(x, 1, 1))
         THEN <<piece>> \o split(SkipSeparators(x), "")
         ELSE split(SubSeq(x, 2, Len(x)), piece \o SubSeq(x, 1, 1))

\* nameString.split(/[\s,]+/).filter(Boolean)
parseNames(nameString) == SelectSeq(split(nameString, ""), LAMBDA piece : Len(piece) > 0)

trim(x) == TrimRight(TrimLeft(x))

canAssign ==
    \/ Len(trim(modal.cnNames)) > 0
    \/ Len(trim(modal.jpNames)) > 0
    \/ Len(trim(modal.specialNames)) > 0
    \/ Len(trim(modal.generalNames)) > 0

\* what the user types into a text area of the dialog
Texts == {"", " ,", "al, bob"}

NameFields == {"cnNames", "jpNames", "specialNames", "generalNames"}

FileTypes == {"raw", "info", "duplicate"}

files == <<rawFile, infoFile, dupFile>>
assignees == <<cnAssignees, jpAssignees, specialAssignees, generalAssignees>>
columnA == <<columnAFile, columnAResult>>
assigned == <<partitions, finalSheetData>>

allFilesUploaded ==
    page.files.raw # "null" /\ page.files.info # "null" /\ page.files.duplicate # "null"

\* the files a user may choose: a raw workbook may lack its first worksheet
Choices(fileType) == IF fileType = "raw" THEN {"ok", "corrupt"} ELSE {"ok"}

\* the page renders its <main> (file pickers, filter buttons, Process Files)
\* unless it renders the Dashboard
MainRendered == ~page.showDashboard

\* the continuation of await assignAndGenerateExcel(...) is a microtask: no
\* event handler runs between the call and it
NoMicrotask == ~page.isAssigning

InitPage ==
    /\ \E writable \in BOOLEAN : page = [PageIdle EXCEPT !.writable = writable]
    /\ modal = ModalIdle
    /\ columnAFile = <<>>
    /\ columnAResult = ColumnAIdle
    /\ rawFile = DefaultRaw(FullWidth)
    /\ infoFile = DefaultInfo
    /\ dupFile = DefaultDup
    /\ zraxFilter = "NONE"
    /\ cnAssignees = <<>>
    /\ jpAssignees = <<>>
    /\ specialAssignees = <<>>
    /\ generalAssignees = <<>>
    /\ pc = "uploaded"
    /\ normalizedData = <<>>
    /\ processedData = <<>>
    /\ partitions = <<>>
    /\ finalSheetData = <<>>
    /\ pivotData = <<>>

\* handleFileChange(fileType)(file)
HandleFileChange(fileType, file) ==
    /\ MainRendered /\ NoMicrotask
    /\ page' = [page EXCEPT !.files[fileType] = file, !.error = "null"]
    /\ UNCHANGED <<files, zraxFilter, assignees, pc, normalizedData, processedData,
                   assigned, pivotData, modal, columnA>>

\* handleZraxFilterChange(filter): the two buttons are never disabled
HandleZraxFilterChange(filter) ==
    /\ MainRendered /\ NoMicrotask
    /\ zraxFilter' = IF zraxFilter = filter THEN "NONE" ELSE filter
    /\ UNCHANGED <<files, assignees, pc, normalizedData, processedData, assigned,
                   pivotData, page, modal, columnA>>

\* handleProcess up to its await: the call takes the zraxFilter of this render
HandleProcess ==
    /\ MainRendered /\ NoMicrotask
    /\ allFilesUploaded /\ ~page.isLoading
    /\ page' = [page EXCEPT !.isLoading = TRUE, !.error = "null", !.inFlight = zraxFilter,
                             !.readable = (page.files.raw = "ok")]
    /\ UNCHANGED <<files, zraxFilter, assignees, pc, normalizedData, processedData,
                   assigned, pivotData, modal, columnA>>

\* mutant: a failed processing clears the table and closes the dialog
ProcessRejected_Clears(data, shown) == [data |-> <<>>, shown |-> FALSE]

\* the catch branch of handleProcess sets the error and nothing else
ProcessRejected(data, shown) == [data |-> data, shown |-> shown]

\* handleProcess after its await: runInitialProcessing returned or threw
ProcessSettles ==
    /\ page.isLoading /\ NoMicrotask
    /\ IF page.readable
       THEN /\ processedData' = runInitialProcessing(rawFile, infoFile, dupFile,
                                                      page.inFlight)
            /\ page' = [page EXCEPT !.isLoading = FALSE, !.inFlight = "-",
                                     !.readable = TRUE,
                                     !.producedWith = page.inFlight,
                                     !.showAssignmentModal = TRUE]
       ELSE LET after == ProcessRejected(processedData, page.showAssignmentModal)
            IN /\ processedData' = after.data
               /\ page' = [page EXCEPT !.isLoading = FALSE, !.inFlight = "-",
                                        !.readable = TRUE, !.error = "set",
                                        !.showAssignmentModal = after.shown]
    /\ UNCHANGED <<files, zraxFilter, assignees, pc, normalizedData, assigned, pivotData,
                   modal, columnA>>

\* onChange of one of the four text areas, disabled while assigning
SetNames(field, text) ==
    /\ page.showAssignmentModal /\ ~page.isAssigning
    /\ modal' = [modal EXCEPT ![field] = text]
    /\ UNCHANGED <<files, zraxFilter, assignees, pc, normalizedData, processedData,
                   assigned, pivotData, page, columnA>>

\* handleAssign of the dialog, its button enabled by canAssign, and
\* handleFinalizeDownload up to its await
HandleAssign ==
    /\ page.showAssignmentModal /\ canAssign /\ ~page.isAssigning
    /\ cnAssignees' = parseNames(modal.cnNames)
    /\ jpAssignees' = parseNames(modal.jpNames)
    /\ specialAssignees' = parseNames(modal.specialNames)
    /\ generalAssignees' = parseNames(modal.generalNames)
    /\ IF processedData = <<>>
       THEN page' = [page EXCEPT !.error = "set"]
       ELSE page' = [page EXCEPT !.isAssigning = TRUE, !.error = "null",
                                 !.assigning = zraxFilter]
    /\ UNCHANGED <<files, zraxFilter, pc, normalizedData, processedData, assigned,
                   pivotData, modal, columnA>>

\* handleFinalizeDownload after its await: the call returned and the file was
\* saved, or the call, XLSX.write or saveAs threw
AssignSettles ==
    /\ page.isAssigning
    /\ LET result == assignAndGenerateExcel(processedData, cnAssignees, jpAssignees,
                                            specialAssignees, generalAssignees,
                                            page.assigning)
       IN IF ~result.threw /\ page.writable
          THEN /\ pivotData' = result.pivotData
               /\ processedData' = InputAfter(processedData, result)
               /\ page' = [page EXCEPT !.isAssigning = FALSE, !.assigning = "-",
                                        !.showDashboard = TRUE,
                                        !.showAssignmentModal = FALSE]
               /\ modal' = ModalIdle
          ELSE /\ processedData' = InputAfter(processedData, result)
               /\ page' = [page EXCEPT !.isAssigning = FALSE, !.assigning = "-",
                                        !.error = "set"]
               /\ UNCHANGED <<pivotData, modal>>
    /\ cnAssignees' = <<>>
    /\ jpAssignees' = <<>>
    /\ specialAssignees' = <<>>
    /\ generalAssignees' = <<>>
    /\ UNCHANGED <<files, zraxFilter, pc, normalizedData, assigned, columnA>>

\* handleCancelAssignment: the Cancel button is disabled while assigning
HandleCancelAssignment ==
    /\ page.showAssignmentModal /\ ~page.isAssigning
    /\ processedData' = <<>>
    /\ page' = [page EXCEPT !.showAssignmentModal = FALSE, !.producedWith = "-"]
    /\ modal' = ModalIdle
    /\ UNCHANGED <<files, zraxFilter, assignees, pc, normalizedData, assigned,
                   pivotData, columnA>>

\* resetState, the onReset of the Dashboard
ResetState ==
    /\ page.showDashboard /\ NoMicrotask
    /\ page' = [page EXCEPT !.files = PageIdle.files, !.showAssignmentModal = FALSE,
                             !.isAssigning = FALSE, !.showDashboard = FALSE,
                             !.error = "null", !.producedWith = "-"]
    /\ processedData' = <<>>
    /\ pivotData' = <<>>
    /\ zraxFilter' = "NONE"
    /\ modal' = ModalIdle
    /\ UNCHANGED <<files, assignees, pc, normalizedData, assigned, columnA>>

NextPage ==
    \/ \E fileType \in FileTypes : \E file \in Choices(fileType) :
          HandleFileChange(fileType, file)
    \/ \E filter \in {"ZOP", "OZ"} : HandleZraxFilterChange(filter)
    \/ HandleProcess
    \/ ProcessSettles
    \/ \E field \in NameFields, text \in Texts : SetNames(field, text)
    \/ HandleAssign
    \/ AssignSettles
    \/ HandleCancelAssignment
    \/ ResetState

SpecPage == InitPage /\ [][NextPage]_vars

----------------------------------------------------------------------------
(* processColumnA, and the same worksheet read by runInitialProcessing *)

\* a worksheet is a sequence of rows of cells; Blank is a cell the sheet does
\* not hold, which sheet_to_json fills with defval
Blank == [t |-> "blank", n |-> 0, s |-> ""]

\* XLSX.utils.sheet_to_json(ws, { header: 1, defval })
sheet_to_json(ws, defval) ==
    [i \in 1..Len(ws) |->
        [k \in 1..Len(ws[i]) |-> IF ws[i][k] = Blank THEN defval ELSE ws[i][k]]]

\* mutant: the loop starts at row 1, as in runInitialProcessing
ColumnASeen_SkipFirstRow(data) ==
    {Number(At(data[i], 0)).n :
        i \in {j \in 2..Len(data) : /\ Len(data[j]) > 0
                                      /\ At(data[j], 0) # Null
                                      /\ ~isNaN(Number(At(data[j], 0)))}}

\* the set seen after the loop over all rows
ColumnASeen(data) ==
    {Number(At(data[i], 0)).n :
        i \in {j \in 1..Len(data) : /\ Len(data[j]) > 0
                                      /\ At(data[j], 0) # Null
                                      /\ ~isNaN(Number(At(data[j], 0)))}}

\* Array.from(seen).sort((a, b) => a - b)
RECURSIVE SortNumbers(_)
SortNumbers(seen) ==
    IF seen = {} THEN <<>>
    ELSE LET least == CHOOSE v \in seen : \A w \in seen : v <= w
         IN <<least>> \o SortNumbers(seen \ {least})

processColumnA(ws) == SortNumbers(ColumnASeen(sheet_to_json(ws, Null)))

MaxSheetRows == 4

SheetCells == {Num(3), Num(10), Str("3"), Str("x"), Str(""), Blank}

\* the file chosen on the ColumnAProcessor page is also the raw file of the
\* AssignerPage, read there with defval ""
InitColumnA ==
    /\ page = PageIdle
    /\ modal = ModalIdle
    /\ columnAResult = ColumnAIdle
    /\ \E cells \in SeqsUpTo(SheetCells, MaxSheetRows) :
          /\ columnAFile = [i \in 1..Len(cells) |-> <<cells[i]>>]
          /\ rawFile = sheet_to_json([i \in 1..Len(cells) |-> <<cells[i]>>], Str(""))
    /\ infoFile = DefaultInfo
    /\ dupFile = DefaultDup
    /\ zraxFilter = "NONE"
    /\ DefaultNames
    /\ pc = "uploaded"
    /\ normalizedData = <<>>
    /\ processedData = <<>>
    /\ partitions = <<>>
    /\ finalSheetData = <<>>
    /\ pivotData = <<>>

\* ColumnAProcessor.handleProcess with a worksheet in the file
ExtractColumnA ==
    /\ ~columnAResult.returned
    /\ columnAResult' = [returned |-> TRUE, uniqueNumbers |-> processColumnA(columnAFile)]
    /\ UNCHANGED <<rawFile, infoFile, dupFile, zraxFilter, cnAssignees, jpAssignees,
                   specialAssignees, generalAssignees, pc, normalizedData, processedData,
                   partitions, finalSheetData, pivotData, page, modal, columnAFile>>

NextColumnA == ExtractColumnA \/ Process

SpecColumnA == InitColumnA /\ [][NextColumnA]_vars

----------------------------------------------------------------------------
(* assignAndGenerateExcel on any enriched table, not only one that           *)
(* runInitialProcessing returned: the header may lack a label or hold 'CTR'  *)
(* twice, and there may be no data row                                       *)

MaxEnrichedRows == 2

\* headers of five cells: the key, two raw columns, the two lookup columns
EnrichedHeaders ==
    {<<Str("A"), Str(c2), Str(c3), Str(info), Str(dup)>> :
        c2 \in {"CTR", "H"}, c3 \in {"I", "CTR"},
        info \in {"Info_VLOOKUP", "Info"}, dup \in {"Dup_VLOOKUP", "Dup"}}

\* a data row as wide as the header: info is the info value, dup says whether
\* the key is in the duplicate table
EnrichedRow(key, info, dup) ==
    <<Num(key), Str("h"), Str("i"), Str(info), IF dup THEN Num(key) ELSE Str("#N/A")>>

\* the k-th data row has key k, as the keys of an enriched table are distinct
EnrichedTables ==
    {<<>>} \cup {<<header>> \o [k \in 1..Len(cells) |->
                                  EnrichedRow(k, cells[k][1], cells[k][2])] :
                    header \in EnrichedHeaders,
                    cells \in SeqsUpTo({"CN", "US"} \X BOOLEAN, MaxEnrichedRows)}

InitEnriched ==
    /\ page = PageIdle
    /\ modal = ModalIdle
    /\ columnAFile = <<>>
    /\ columnAResult = ColumnAIdle
    /\ rawFile = <<>>
    /\ infoFile = <<>>
    /\ dupFile = <<>>
    /\ normalizedData = <<>>
    /\ partitions = <<>>
    /\ finalSheetData = <<>>
    /\ pivotData = <<>>
    /\ pc = "processed"
    /\ processedData \in EnrichedTables
    /\ zraxFilter \in Filters
    /\ DefaultNames

NextAssign == Assign

SpecAssign == InitEnriched /\ [][NextAssign]_vars

----------------------------------------------------------------------------
(* Vocabulary of the properties *)

Processed == pc # "uploaded"
IsAssigned == pc = "assigned"

\* JavaScript indices of the data rows of a table
DataRows(table) == 1..(Len(table) - 1)

\* the numeric key of raw data row i (NaN when its first cell is not numeric)
RawKey(i) == Number(At(rawFile[i + 1], 0))

\* raw data row i has a numeric key that no earlier raw data row has
FirstOfKey(i) ==
    /\ ~isNaN(RawKey(i))
    /\ \A j \in 1..(i - 1) : RawKey(j) # RawKey(i)

\* the cells a processed row keeps from its raw row: all but the two lookup cells
Kept(row) == SubSeq(row, 1, Len(row) - 2)

\* the processed row derives from raw data row i: column A coerced, columns H.. kept
DerivesFrom(row, i) ==
    /\ At(row, 0) = RawKey(i)
    /\ SubSeq(Kept(row), 2, Len(Kept(row))) = slice(rawFile[i + 1], 7)

\* the cell of a processed row under a header label
Under(table, row, label) == At(row, findIndex(table[1], label))

----------------------------------------------------------------------------
(* C1: with filter NONE, the data rows of the table process returns are exactly
   the raw data rows whose first cell coerces to a number not seen in an earlier
   data row, in their original order. *)
C1_FirstNumericKept ==
    (Processed /\ zraxFilter = "NONE") =>
        LET firsts == {i \in DataRows(rawFile) : FirstOfKey(i)}
            rank(i) == Cardinality({j \in firsts : j <= i})
        IN /\ Len(processedData) = 1 + Cardinality(firsts)
           /\ \A i \in firsts : DerivesFrom(processedData[rank(i) + 1], i)

\* the scenario 5, 5, abc, 7 has been processed: the first 5-row and the 7-row remain
C1_Witness ==
    /\ Processed /\ zraxFilter = "NONE"
    /\ Len(rawFile) = 5
    /\ [i \in 1..4 |-> At(rawFile[i + 1], 0)] = <<Num(5), Num(5), Str("abc"), Num(7)>>
    /\ Len(processedData) = 3
    /\ DerivesFrom(processedData[2], 1)
    /\ DerivesFrom(processedData[3], 4)

(* C6: the Info_VLOOKUP cell of a processed row with key k is the column-G cell of
   the first info data row whose column B coerces to k, whatever that cell holds,
   and is the string "#N/A" when no info data row has that key. *)
C6_JoinCorrect ==
    Processed =>
        \A r \in DataRows(processedData) :
            LET row == processedData[r + 1]
                hits == {j \in DataRows(infoFile) :
                            Number(At(infoFile[j + 1], 1)) = At(row, 0)}
                first == CHOOSE j \in hits : \A h \in hits : j <= h
            IN Under(processedData, row, "Info_VLOOKUP") =
                  IF hits # {} THEN At(infoFile[first + 1], 6) ELSE Str("#N/A")

\* key 5 occurs twice in the info sheet, first with an empty column-G cell, and
\* the processed row of key 5 holds that empty cell
C6_Witness ==
    /\ Processed
    /\ Len(infoFile) = 3
    /\ Number(At(infoFile[2], 1)) = Num(5) /\ At(infoFile[2], 6) = Str("")
    /\ Number(At(infoFile[3], 1)) = Num(5) /\ At(infoFile[3], 6) = Str("CN")
    /\ \E r \in DataRows(processedData) :
          /\ At(processedData[r + 1], 0) = Num(5)
          /\ Under(processedData, processedData[r + 1], "Info_VLOOKUP") = Str("")
    /\ \E r \in DataRows(processedData) :
          Under(processedData, processedData[r + 1], "Info_VLOOKUP") = Str("#N/A")

(* C9: in every table process returns, each data row's first cell is a number and
   no two data rows have the same first cell. *)
C9_UniqueNumericKey ==
    Processed =>
        /\ \A r \in DataRows(processedData) : At(processedData[r + 1], 0).t = "num"
        /\ \A r, q \in DataRows(processedData) :
              r # q => At(processedData[r + 1], 0) # At(processedData[q + 1], 0)

\* a raw sheet with the text "7" before the number 7 has been processed: one row
\* with the number 7 remains, next to a row of another key
C9_Witness ==
    /\ Processed
    /\ Len(rawFile) = 4
    /\ At(rawFile[2], 0) = Str("7") /\ At(rawFile[3], 0) = Num(7) /\ At(rawFile[4], 0) = Num(5)
    /\ Len(processedData) = 3
    /\ At(processedData[2], 0) = Num(7)
    /\ At(processedData[3], 0) = Num(5)

\* raw data row i is present in the processed table, with its own first cell or
\* with the NaN its coercion gives
Present(i) ==
    \E r \in DataRows(processedData) :
        /\ At(processedData[r + 1], 0) \in {At(rawFile[i + 1], 0), NaN}
        /\ SubSeq(Kept(processedData[r + 1]), 2, Len(Kept(processedData[r + 1])))
              = slice(rawFile[i + 1], 7)

\* the ONLY-FLAGGED pre-filter removes raw data row i
RemovedByOZ(i) == zraxFilter = "OZ" /\ At(rawFile[i + 1], zColRaw) # Str("ZRAX")

(* C10, as claimed: a raw data row whose first cell cannot be coerced to a number
   is still present in the table process returns, unless the ONLY-FLAGGED
   pre-filter removes it. *)
C10_NonNumericRowStays ==
    Processed =>
        \A i \in DataRows(rawFile) :
            (isNaN(RawKey(i)) /\ ~RemovedByOZ(i)) => Present(i)

(* C10, amended: a raw data row whose first cell cannot be coerced to a number is
   dropped under every filter mode: the table process returns holds no row for
   it, and has at most as many data rows as the raw sheet has numeric ones. *)
C10_NonNumericRowDropped ==
    Processed =>
        /\ \A i \in DataRows(rawFile) : isNaN(RawKey(i)) => ~Present(i)
        /\ Len(processedData) - 1
              <= Cardinality({i \in DataRows(rawFile) : ~isNaN(RawKey(i))})

\* a raw sheet with a non-numeric row between two numeric ones has been
\* processed under NONE: only the two numeric rows are in the table
C10_Witness ==
    /\ Processed /\ zraxFilter = "NONE"
    /\ Len(rawFile) = 4
    /\ ~isNaN(RawKey(1)) /\ isNaN(RawKey(2)) /\ ~isNaN(RawKey(3)) /\ RawKey(1) # RawKey(3)
    /\ Len(processedData) = 3
    /\ DerivesFrom(processedData[2], 1)
    /\ DerivesFrom(processedData[3], 3)

----------------------------------------------------------------------------
(* Vocabulary of the assignment properties *)

BucketNames == {"cnRows", "jpRows", "specialRows", "generalRows"}

BucketCategory(b) ==
    CASE b = "cnRows" -> "CN" [] b = "jpRows" -> "JP"
      [] b = "specialRows" -> "SPECIAL" [] OTHER -> "GENERAL"

BucketList(b) ==
    CASE b = "cnRows" -> cnAssignees [] b = "jpRows" -> jpAssignees
      [] b = "specialRows" -> specialAssignees [] OTHER -> generalAssignees

BucketSentinel(b) ==
    CASE b = "cnRows" -> "UNASSIGNED_CN" [] b = "jpRows" -> "UNASSIGNED_JP"
      [] b = "specialRows" -> "UNASSIGNED_SPECIAL" [] OTHER -> "UNASSIGNED_GENERAL"

\* the rows of a bucket over the whole final table: flagged partition first
WholeBucket(b) == Concat([p \in 1..Len(partitions) |-> partitions[p][b]])

Distinct(names) == \A j, k \in 1..Len(names) : j # k => names[j] # names[k]

Owned(rows, name) == Cardinality({k \in 1..Len(rows) : At(rows[k], 0) = Str(name)})

\* every name has floor or ceiling of n/m rows, the first n mod m names the ceiling
Fair(rows, names) ==
    \A j \in 1..Len(names) :
        Owned(rows, names[j]) =
            (Len(rows) \div Len(names)) + (IF j <= Len(rows) % Len(names) THEN 1 ELSE 0)

\* the info value of an assigned row (the owner shifts the columns by one)
InfoOfAssigned(row) == At(row, findIndex(processedData[1], "Info_VLOOKUP") + 1)

\* the keys of the data rows of the final table (column A follows the owner)
FinalKeys == {At(finalSheetData[r + 1], 1) : r \in DataRows(finalSheetData)}

\* the numeric coercions of column G of the data rows of the duplicate sheet
DupKeys == {Number(At(dupFile[j + 1], 6)) : j \in DataRows(dupFile)} \ {NaN}

\* the raw data row a key derives from under NONE and ZOP: the first with that key
RawSource(key) ==
    CHOOSE i \in DataRows(rawFile) :
        RawKey(i) = key /\ \A j \in 1..(i - 1) : RawKey(j) # key

(* C2, as claimed: round-robin fairness per bucket of the final table under every
   filter mode: with n rows of the bucket in the final table and m >= 1 distinct
   names, every name owns floor(n/m) or ceil(n/m) rows of the bucket and exactly
   the first n mod m names own the larger count. *)
C2_FairPerBucket ==
    IsAssigned =>
        \A b \in BucketNames :
            (Len(BucketList(b)) >= 1 /\ Distinct(BucketList(b)))
                => Fair(WholeBucket(b), BucketList(b))

(* C2, amended: the fairness holds per bucket of each partition, that is per call
   of processAndAssign: for the whole final table under NONE and ONLY-FLAGGED,
   and separately for the flagged and for the other partition under
   PRIORITIZE-FLAGGED. *)
C2_FairPerPartitionBucket ==
    IsAssigned =>
        \A p \in 1..Len(partitions), b \in BucketNames :
            (Len(BucketList(b)) >= 1 /\ Distinct(BucketList(b)))
                => Fair(partitions[p][b], BucketList(b))

\* under PRIORITIZE-FLAGGED the flagged partition has three CN rows for two
\* names: the first name owns two of them, the second one
C2_Witness ==
    /\ IsAssigned /\ zraxFilter = "ZOP"
    /\ Len(partitions) = 2
    /\ Len(partitions[1].cnRows) = 3
    /\ Len(cnAssignees) = 2
    /\ Owned(partitions[1].cnRows, cnAssignees[1]) = 2
    /\ Owned(partitions[1].cnRows, cnAssignees[2]) = 1

(* C3: within the row sequence of a bucket (the rows of its category, in the
   order of the rows handed to processAndAssign), the row at 0-based position i
   gets names[i mod len(names)] when the bucket's list is non-empty and the
   bucket's sentinel when it is empty; every row of the final table has an owner. *)
C3_OwnerByPosition ==
    IsAssigned =>
        /\ \A p \in 1..Len(partitions), b \in BucketNames :
              LET rows == partitions[p][b]
                  names == BucketList(b)
                  infoLookupIndex == findIndex(processedData[1], "Info_VLOOKUP")
                  sequence == SelectSeq(partitions[p].rowsToAssign,
                                LAMBDA row : Category(At(row, infoLookupIndex))
                                                = BucketCategory(b))
              IN /\ Len(rows) = Len(sequence)
                 /\ \A k \in 1..Len(rows) :
                       /\ Tail(rows[k]) = sequence[k]
                       /\ At(rows[k], 0) =
                             IF Len(names) > 0
                             THEN Str(names[((k - 1) % Len(names)) + 1])
                             ELSE Str(BucketSentinel(b))
        /\ \A r \in DataRows(finalSheetData) :
              /\ At(finalSheetData[r + 1], 0).t = "str"
              /\ At(finalSheetData[r + 1], 0).s # ""

\* three CN rows and the list Alice, Bob: the owners are Alice, Bob, Alice
C3_Witness ==
    /\ IsAssigned
    /\ cnAssignees = <<"Alice", "Bob">>
    /\ Len(partitions) = 1
    /\ [k \in 1..Len(partitions[1].cnRows) |-> At(partitions[1].cnRows[k], 0)]
          = <<Str("Alice"), Str("Bob"), Str("Alice")>>
    /\ [r \in DataRows(finalSheetData) |-> At(finalSheetData[r + 1], 0)]
          = <<Str("Alice"), Str("Bob"), Str("Alice")>>

\* two characters are the same letter, whatever their case
SameLetter(a, b) == LowerChar(a) = LowerChar(b)

\* the text holds the code somewhere, letter case ignored
Holds(text, code) ==
    \E k \in 1..(Len(text) - Len(code) + 1) :
        \A j \in 1..Len(code) :
            SameLetter(SubSeq(text, k + j - 1, k + j - 1), SubSeq(code, j, j))

\* the bucket the priority order CN > JP > SPECIAL > GENERAL gives a text
ExpectedBucket(text) ==
    IF Holds(text, "CN") THEN "cnRows"
    ELSE IF Holds(text, "JP") THEN "jpRows"
    ELSE IF \E code \in {"RU", "UA", "NI", "VE", "BY", "CU", "IR", "KP", "SY"} :
                Holds(text, code) THEN "specialRows"
    ELSE "generalRows"

(* C4: categorisation is first-match-wins in the order CN > JP > SPECIAL >
   GENERAL on the info value, letter case ignored; a value holding none of the
   codes, the empty value and "#N/A" included, goes to GENERAL. *)
C4_FirstMatchWins ==
    IsAssigned =>
        \A p \in 1..Len(partitions), b \in BucketNames :
            \A k \in 1..Len(partitions[p][b]) :
                LET cell == InfoOfAssigned(partitions[p][b][k])
                IN /\ ExpectedBucket(String(cell)) = b
                   /\ cell \in {Str(""), Str("#N/A")} => b = "generalRows"

\* a row whose info value holds JP and CN is in the CN bucket
C4_Witness ==
    /\ IsAssigned
    /\ \E p \in 1..Len(partitions) :
          /\ Len(partitions[p].cnRows) = 1
          /\ InfoOfAssigned(partitions[p].cnRows[1]) = Str("JPCN")

(* C5: a processed data row is in the final table if and only if its
   Dup_VLOOKUP cell is "#N/A"; no row of the final table has a key among the
   numeric coercions of column G of the duplicate sheet, and every processed row
   whose key is not among them is in the final table. *)
C5_DuplicatesFiltered ==
    IsAssigned =>
        /\ \A r \in DataRows(processedData) :
              LET row == processedData[r + 1]
              IN /\ (At(row, 0) \in FinalKeys)
                        <=> (Under(processedData, row, "Dup_VLOOKUP") = Str("#N/A"))
                 /\ (At(row, 0) \in FinalKeys) <=> (At(row, 0) \notin DupKeys)
        /\ FinalKeys \cap DupKeys = {}
        /\ FinalKeys \subseteq {At(processedData[r + 1], 0) : r \in DataRows(processedData)}

\* the duplicate sheet holds the text "7": under PRIORITIZE-FLAGGED the
\* processed row of key 7 holds 7 as Dup_VLOOKUP and only keys 5 and 9 are final
C5_Witness ==
    /\ IsAssigned /\ zraxFilter = "ZOP"
    /\ \E j \in DataRows(dupFile) : At(dupFile[j + 1], 6) = Str("7")
    /\ \E r \in DataRows(processedData) :
          /\ At(processedData[r + 1], 0) = Num(7)
          /\ Under(processedData, processedData[r + 1], "Dup_VLOOKUP") = Num(7)
    /\ FinalKeys = {Num(5), Num(9)}

(* C7: under PRIORITIZE-FLAGGED a surviving row is in the flagged partition if
   and only if its raw row holds "ZRAX" in column Z (raw index 25); a raw row too
   short to hold column Z is not flagged. *)
C7_FlaggedIffColumnZ ==
    (IsAssigned /\ zraxFilter = "ZOP") =>
        \A p \in 1..Len(partitions) :
            \A k \in 1..Len(partitions[p].rowsToAssign) :
                LET key == At(partitions[p].rowsToAssign[k], 0)
                IN (p = 1) <=> (At(rawFile[RawSource(key) + 1], zColRaw) = Str("ZRAX"))

(* C8: each row surviving the duplicate filter is exactly once in the final
   table and in exactly one bucket of one partition; the sizes of the four
   buckets, summed over the partitions, add up to the number of filtered rows. *)
C8_PartitionComplete ==
    (IsAssigned /\ Len(processedData) >= 2) =>
        LET filtered == SelectSeq(Tail(processedData),
                          LAMBDA row : Under(processedData, row, "Dup_VLOOKUP") = Str("#N/A"))
            slots == {<<p, b, k>> \in (1..Len(partitions)) \X BucketNames \X (1..Len(filtered)) :
                        k <= Len(partitions[p][b])}
        IN /\ Len(finalSheetData) - 1 = Len(filtered)
           /\ Len(WholeBucket("cnRows")) + Len(WholeBucket("jpRows"))
                + Len(WholeBucket("specialRows")) + Len(WholeBucket("generalRows"))
                = Len(filtered)
           /\ \A f \in 1..Len(filtered) :
                 /\ Cardinality({r \in DataRows(finalSheetData) :
                                   At(finalSheetData[r + 1], 1) = At(filtered[f], 0)}) = 1
                 /\ Cardinality({x \in slots :
                                   At(partitions[x[1]][x[2]][x[3]], 1) = At(filtered[f], 0)}) = 1

\* under PRIORITIZE-FLAGGED three rows survive, spread over both partitions and
\* over three buckets
C8_Witness ==
    /\ IsAssigned /\ zraxFilter = "ZOP"
    /\ Len(partitions) = 2
    /\ Len(partitions[1].rowsToAssign) = 1
    /\ Len(partitions[2].rowsToAssign) = 2
    /\ Len(WholeBucket("cnRows")) = 1
    /\ Len(WholeBucket("specialRows")) = 1
    /\ Len(WholeBucket("generalRows")) = 1
    /\ Len(finalSheetData) = 4

----------------------------------------------------------------------------
(* C11, as claimed: applying the Normalizer (steps 2.2 to 2.4: key coercion and
   dedup, deletion of columns 1 through 6, renaming of position 1 to CTR) to a
   table the Normalizer has produced returns a table identical to its input. *)
C11_NormalizerIdempotent ==
    Processed => Normalize(normalizedData, "NONE") = normalizedData

(* C11, amended: key coercion and dedup (step 2.2) and the renaming (step 2.4)
   applied to a table the Normalizer has produced return that table; the whole
   Normalizer applied again returns the same rows, each without its columns 1
   through 6. *)
C11_DedupIdempotent ==
    Processed =>
        /\ UniqueData(normalizedData) = normalizedData
        /\ RenameCTR(normalizedData) = normalizedData
        /\ Normalize(normalizedData, "NONE")
              = RenameCTR([k \in 1..Len(normalizedData) |-> DeleteColumns(normalizedData[k])])

\* the scenario 5, 5, abc, 7 has been normalised to two data rows of 20 cells:
\* the dedup returns them as they are, the whole Normalizer returns rows of 14 cells
C11_Witness ==
    /\ Processed
    /\ Len(rawFile) = 5
    /\ Len(normalizedData) = 3
    /\ Len(normalizedData[2]) = FullWidth - 6
    /\ UniqueData(normalizedData) = normalizedData
    /\ Len(Normalize(normalizedData, "NONE")) = 3
    /\ Len(Normalize(normalizedData, "NONE")[2]) = FullWidth - 12

----------------------------------------------------------------------------
(* Vocabulary of the pivot properties *)

\* the owner cells of the data rows of the final table
FinalOwners == {At(finalSheetData[r + 1], 0) : r \in DataRows(finalSheetData)}

\* the number of data rows of the final table an owner has
FinalRowsOf(owner) ==
    Cardinality({r \in DataRows(finalSheetData) : At(finalSheetData[r + 1], 0) = owner})

\* the pivot has one entry per owner of a final row, with the owner's row count
OneEntryPerOwner ==
    /\ Len(pivotData) = Cardinality(FinalOwners)
    /\ \A owner \in FinalOwners :
          \E k \in 1..Len(pivotData) :
              /\ pivotData[k].screener = String(owner)
              /\ pivotData[k].count = FinalRowsOf(owner)
              /\ pivotData[k].count >= 1

\* the characters of the model's alphabet in the order of their code units
CodeUnitOrder == <<" ", "#", "-", "/",
                   "0", "1", "2", "3", "4", "5", "6", "7", "8", "9",
                   "A", "B", "C", "D", "E", "F", "G", "H", "I", "J", "K", "L", "M",
                   "N", "O", "P", "Q", "R", "S", "T", "U", "V", "W", "X", "Y", "Z",
                   "_",
                   "a", "b", "c", "d", "e", "f", "g", "h", "i", "j", "k", "l", "m",
                   "n", "o", "p", "q", "r", "s", "t", "u", "v", "w", "x", "y", "z">>

CodeUnitOf ==
    [ch \in {CodeUnitOrder[k] : k \in 1..Len(CodeUnitOrder)} |->
        CHOOSE k \in 1..Len(CodeUnitOrder) : CodeUnitOrder[k] = ch]

\* a < b in ordinary lexicographic order: code unit by code unit, a prefix first
RECURSIVE LexLess(_, _, _)
LexLess(a, b, k) ==
    IF k > Len(b) THEN FALSE
    ELSE IF k > Len(a) THEN TRUE
    ELSE LET ua == CodeUnitOf[SubSeq(a, k, k)]
             ub == CodeUnitOf[SubSeq(b, k, k)]
         IN IF ua < ub THEN TRUE ELSE IF ua > ub THEN FALSE ELSE LexLess(a, b, k + 1)

(* C12: the counts of the pivot entries assign returns add up to the number of
   data rows of the final table; the sum is the Grand Total of the dashboard. *)
C12_PivotSum ==
    IsAssigned => total(pivotData) = Len(finalSheetData) - 1

\* four final rows, three owners: the counts 2, 1, 1 add up to 4
C12_Witness ==
    /\ IsAssigned
    /\ Len(finalSheetData) = 5
    /\ Len(pivotData) = 3
    /\ \E k \in 1..3 : pivotData[k].count = 2
    /\ total(pivotData) = 4

(* C13, as claimed: the pivot has exactly one entry per distinct owner of a final
   row, with a count >= 1 equal to the owner's number of rows, and the entries
   are in strictly ascending order of name under ordinary lexicographic string
   comparison. *)
C13_PivotLexicographic ==
    IsAssigned =>
        /\ OneEntryPerOwner
        /\ \A k \in 1..(Len(pivotData) - 1) :
              LexLess(pivotData[k].screener, pivotData[k + 1].screener, 1)

(* C13, amended: the pivot has exactly one entry per distinct owner of a final
   row, with a count >= 1 equal to the owner's number of rows (a listed name
   without a row has no entry, a sentinel owner has one), and the entries are in
   the order of localeCompare: no entry compares greater than the next one. *)
C13_PivotLocaleOrder ==
    IsAssigned =>
        /\ OneEntryPerOwner
        /\ \A k \in 1..(Len(pivotData) - 1) :
              localeCompare(pivotData[k].screener, pivotData[k + 1].screener) <= 0
        /\ \A name \in {cnAssignees[j] : j \in 1..Len(cnAssignees)} :
              (Str(name) \notin FinalOwners)
                  => \A k \in 1..Len(pivotData) : pivotData[k].screener # name

\* the owners bob, Cy and UNASSIGNED_JP: the pivot lists bob (two rows) before Cy
\* and the sentinel last, and the listed name al has no entry
C13_Witness ==
    /\ IsAssigned
    /\ cnAssignees = <<"Cy", "al">>
    /\ generalAssignees = <<"bob">>
    /\ pivotData = << [screener |-> "bob", count |-> 2],
                      [screener |-> "Cy", count |-> 1],
                      [screener |-> "UNASSIGNED_JP", count |-> 1] >>

----------------------------------------------------------------------------
(* Vocabulary of the order of the final table *)

\* the JavaScript index of the processed data row with the key
ProcessedIndex(key) ==
    CHOOSE r \in DataRows(processedData) : At(processedData[r + 1], 0) = key

\* 1 for a row of the flagged partition, 2 for the other partition; one
\* partition unless the mode is PRIORITIZE-FLAGGED
PartitionRank(row) ==
    IF zraxFilter = "ZOP" /\ At(row, zColIndex) # Str("ZRAX") THEN 2 ELSE 1

BucketRank(b) ==
    CASE b = "cnRows" -> 1 [] b = "jpRows" -> 2 [] b = "specialRows" -> 3 [] OTHER -> 4

\* partition, bucket and position in the enriched table of the row of final row r
FinalRank(r) ==
    LET index == ProcessedIndex(At(finalSheetData[r + 1], 1))
        row == processedData[index + 1]
    IN << PartitionRank(row),
          BucketRank(ExpectedBucket(String(Under(processedData, row, "Info_VLOOKUP")))),
          index >>

RankLess(a, b) ==
    \/ a[1] < b[1]
    \/ a[1] = b[1] /\ a[2] < b[2]
    \/ a[1] = b[1] /\ a[2] = b[2] /\ a[3] < b[3]

(* C14: the data rows of the final table are ordered by partition (flagged before
   other under PRIORITIZE-FLAGGED), then by bucket (CN, JP, SPECIAL, GENERAL),
   and inside a bucket of a partition by their position in the enriched table. *)
C14_FinalOrder ==
    IsAssigned =>
        \A r, q \in DataRows(finalSheetData) :
            r < q => RankLess(FinalRank(r), FinalRank(q))

\* under PRIORITIZE-FLAGGED the enriched rows 1 (CN, not flagged), 2 (GENERAL,
\* flagged) and 3 (SPECIAL, flagged) are in the final table in the order 3, 2, 1
C14_Witness ==
    /\ IsAssigned /\ zraxFilter = "ZOP"
    /\ [r \in DataRows(processedData) |-> At(processedData[r + 1], 0)]
          = <<Num(1), Num(2), Num(3)>>
    /\ [r \in DataRows(finalSheetData) |-> At(finalSheetData[r + 1], 1)]
          = <<Num(3), Num(2), Num(1)>>
    /\ Len(partitions[1].specialRows) = 1
    /\ Len(partitions[1].generalRows) = 1
    /\ Len(partitions[2].cnRows) = 1

----------------------------------------------------------------------------
(* Vocabulary of the enrichment properties *)

\* the last two cells of a processed row
Appended(row) == SubSeq(row, Len(row) - 1, Len(row))

\* the column-G cell of the first info data row whose column B coerces to the
\* key, "#N/A" without such a row
ExpectedInfo(key) ==
    LET hits == {j \in DataRows(infoFile) : Number(At(infoFile[j + 1], 1)) = key}
    IN IF hits = {} THEN Str("#N/A")
       ELSE At(infoFile[(CHOOSE j \in hits : \A h \in hits : j <= h) + 1], 6)

(* C15: process appends exactly two cells to every normalized row and changes no
   other cell: the labels Info_VLOOKUP and Dup_VLOOKUP to the header, and to a
   data row its info result followed by its own key if the key is in the
   duplicate index and by "#N/A" otherwise. *)
C15_TwoCellsAppended ==
    Processed =>
        /\ Len(processedData) = Len(normalizedData)
        /\ \A k \in 1..Len(processedData) :
              /\ Len(processedData[k]) = Len(normalizedData[k]) + 2
              /\ Kept(processedData[k]) = normalizedData[k]
        /\ Len(processedData) >= 1
        /\ Appended(processedData[1]) = <<Str("Info_VLOOKUP"), Str("Dup_VLOOKUP")>>
        /\ \A r \in DataRows(processedData) :
              LET row == processedData[r + 1]
                  key == At(row, 0)
              IN Appended(row) =
                    <<ExpectedInfo(key), IF key \in DupKeys THEN key ELSE Str("#N/A")>>

\* the scenario of the specification: the row of key 5 (no info row, not a
\* duplicate) gains "#N/A", "#N/A" and the row of key 7 gains "CN", 7
C15_Witness ==
    /\ Processed
    /\ Len(processedData) = 3
    /\ Len(normalizedData[2]) = FullWidth - 6
    /\ At(processedData[2], 0) = Num(5)
    /\ Appended(processedData[2]) = <<Str("#N/A"), Str("#N/A")>>
    /\ At(processedData[3], 0) = Num(7)
    /\ Appended(processedData[3]) = <<Str("CN"), Num(7)>>

----------------------------------------------------------------------------
(* Vocabulary of the ONLY-FLAGGED pre-filter *)

\* raw data row i holds "ZRAX" in column Z
Flagged(i) == At(rawFile[i + 1], zColRaw) = Str("ZRAX")

\* raw data row i is flagged, has a numeric key, and no earlier flagged raw data
\* row has that key
FirstFlaggedOfKey(i) ==
    /\ Flagged(i)
    /\ ~isNaN(RawKey(i))
    /\ \A j \in 1..(i - 1) : Flagged(j) => RawKey(j) # RawKey(i)

\* the data rows of the processed table derive, in order, from the raw data rows
\* of the set
DataRowsFrom(rows) ==
    /\ Len(processedData) = 1 + Cardinality(rows)
    /\ \A i \in rows :
          DerivesFrom(processedData[Cardinality({j \in rows : j <= i}) + 1], i)

\* the header of the processed table derives from the raw header
HeaderKept ==
    Len(rawFile) >= 1 =>
        /\ At(processedData[1], 0) = At(rawFile[1], 0)
        /\ SubSeq(Kept(processedData[1]), 3, Len(Kept(processedData[1])))
              = slice(rawFile[1], 8)

(* C16: with ONLY-FLAGGED process retains, before the dedup, only the raw data
   rows whose column-Z cell (index 25) equals "ZRAX", and always the header; with
   NONE or PRIORITIZE-FLAGGED no row is removed because of its flag. *)
C16_OnlyFlaggedKept ==
    Processed =>
        /\ HeaderKept
        /\ zraxFilter = "OZ"
              => DataRowsFrom({i \in DataRows(rawFile) : FirstFlaggedOfKey(i)})
        /\ zraxFilter # "OZ"
              => DataRowsFrom({i \in DataRows(rawFile) : FirstOfKey(i)})

\* under ONLY-FLAGGED the raw rows 5 (not flagged), 5 (flagged), abc, 7 (not
\* flagged) give one data row, from the second raw row; the header, whose own
\* column-Z cell is not "ZRAX", is there
C16_Witness ==
    /\ Processed /\ zraxFilter = "OZ"
    /\ Len(rawFile) = 5
    /\ At(rawFile[1], zColRaw) # Str("ZRAX")
    /\ ~Flagged(1) /\ Flagged(2) /\ RawKey(1) = RawKey(2)
    /\ Len(processedData) = 2
    /\ At(processedData[1], 0) = At(rawFile[1], 0)
    /\ DerivesFrom(processedData[2], 2)

----------------------------------------------------------------------------
(* C17: assign does not modify its input: the enriched table is after the call,
   whether it returned or threw, cell for cell what it was before, so a second
   call with the same table, lists and filter mode gives the same final table
   and the same pivot. *)
C17_InputUnchanged ==
    /\ [][pc = "processed" => processedData' = processedData]_vars
    /\ [](IsAssigned =>
            LET again == assignAndGenerateExcel(processedData, cnAssignees, jpAssignees,
                                                specialAssignees, generalAssignees,
                                                zraxFilter)
            IN /\ ~again.threw
               /\ again.finalSheetData = finalSheetData
               /\ again.pivotData = pivotData)

\* three rows have been assigned and the CTR column removed from the final table:
\* the enriched table still has its header A, CTR, ... and rows that start with
\* their keys
C17_Witness ==
    /\ IsAssigned
    /\ Len(finalSheetData) = 4
    /\ At(finalSheetData[1], 0) = Str("Screener")
    /\ At(finalSheetData[1], 2) # Str("CTR")
    /\ Len(processedData) = 4
    /\ At(processedData[1], 0) = Str("A")
    /\ At(processedData[1], 1) = Str("CTR")
    /\ \A r \in DataRows(processedData) : At(processedData[r + 1], 0).t = "num"

----------------------------------------------------------------------------
(* Vocabulary of the frame of the assignment *)

\* the rows the calls of processAndAssign returned, in order
ReturnedRows ==
    Concat([p \in 1..Len(partitions) |->
              partitions[p].cnRows \o partitions[p].jpRows
                \o partitions[p].specialRows \o partitions[p].generalRows])

\* the row is an enriched data row with one cell prepended
OwnerPrepended(row) ==
    \E q \in DataRows(processedData) :
        /\ Len(row) = Len(processedData[q + 1]) + 1
        /\ Tail(row) = processedData[q + 1]

(* C18, as claimed: every data row of the final table is the corresponding
   enriched row with exactly one owner-name cell prepended: one cell longer, and
   the enriched row again once its first cell is removed. *)
C18_OwnerPrepended ==
    IsAssigned =>
        \A r \in DataRows(finalSheetData) : OwnerPrepended(finalSheetData[r + 1])

(* C18, amended: every row processAndAssign returns is the corresponding enriched
   row with exactly one owner-name cell prepended; the data row of the final
   table is that row without the cell of the column labelled CTR, when the
   enriched header has that label, and that row itself otherwise. *)
C18_OwnerPrependedCtrRemoved ==
    (IsAssigned /\ Len(processedData) >= 2) =>
        LET ctrIndex == findIndex(processedData[1], "CTR")
        IN /\ Len(finalSheetData) - 1 = Len(ReturnedRows)
           /\ \A r \in 1..Len(ReturnedRows) :
                 /\ OwnerPrepended(ReturnedRows[r])
                 /\ At(ReturnedRows[r], 0).t = "str"
                 /\ finalSheetData[r + 1] =
                       IF ctrIndex # -1
                       THEN SubSeq(ReturnedRows[r], 1, ctrIndex + 1)
                              \o SubSeq(ReturnedRows[r], ctrIndex + 3, Len(ReturnedRows[r]))
                       ELSE ReturnedRows[r]

\* the enriched header has CTR at index 1: the final row of key 5 is Alice, 5 and
\* the cells after the CTR cell, as long as the enriched row
C18_Witness ==
    /\ IsAssigned
    /\ Len(processedData) >= 2 /\ Len(finalSheetData) >= 2
    /\ findIndex(processedData[1], "CTR") = 1
    /\ At(processedData[2], 0) = Num(5)
    /\ At(finalSheetData[2], 0) = Str("Alice")
    /\ At(finalSheetData[2], 1) = Num(5)
    /\ Len(finalSheetData[2]) = Len(processedData[2])
    /\ slice(finalSheetData[2], 2) = slice(processedData[2], 2)

----------------------------------------------------------------------------
(* Vocabulary of the special codes *)

\* the codes of the dialog's label: Assignees for 'RU, UA, NI, VE, BY, CU, IR, KP, SY' Data
LabelCodes == {"RU", "UA", "NI", "VE", "BY", "CU", "IR", "KP", "SY"}

\* the info value of an assigned row: its last cell but one
InfoCellOf(row) == At(row, Len(row) - 2)

\* the info value holds a code of the label and neither CN nor JP
IsSpecialValue(cell) ==
    LET text == String(cell)
    IN /\ \E code \in LabelCodes : Holds(text, code)
       /\ ~Holds(text, "CN")
       /\ ~Holds(text, "JP")

\* the owner is a name of the special list, or the sentinel of an empty list
SpecialOwner(owner) ==
    IF Len(specialAssignees) = 0 THEN owner = Str("UNASSIGNED_SPECIAL")
    ELSE \E j \in 1..Len(specialAssignees) : owner = Str(specialAssignees[j])

(* C19: in every implementation of assignAndGenerateExcel under src/, a row whose
   info value holds, letter case ignored, one of the nine codes RU, UA, NI, VE,
   BY, CU, IR, KP, SY and neither CN nor JP is in the SPECIAL bucket and owned by
   a special assignee. *)
C19_NineSpecialCodes ==
    IsAssigned =>
        \A p \in 1..Len(partitions), b \in BucketNames :
            \A k \in 1..Len(partitions[p][b]) :
                IsSpecialValue(InfoCellOf(partitions[p][b][k]))
                    => /\ b = "specialRows"
                       /\ SpecialOwner(At(partitions[p][b][k], 0))

----------------------------------------------------------------------------
(* C20: process fails with the EmptySheet error, and returns no enriched table,
   whenever the raw primary table has no rows at all, not even a header row. *)
C20_EmptySheetFails ==
    (rawFile = <<>> /\ Processed) => (pc = "failed" /\ processedData = <<>>)

----------------------------------------------------------------------------
(* Claims C21 to C30 *)

\* the header of the table handed to assignAndGenerateExcel
EnrichedHeader == IF Len(processedData) > 0 THEN processedData[1] ELSE <<>>

LacksLabel ==
    \/ findIndex(EnrichedHeader, "Dup_VLOOKUP") = -1
    \/ findIndex(EnrichedHeader, "Info_VLOOKUP") = -1

AssignReturned == pc \in {"assigned", "failed"}

\* C21 as stated: assign on a table whose header lacks Dup_VLOOKUP or
\* Info_VLOOKUP fails with MissingColumn and gives neither a final table nor a
\* pivot, whatever the number of data rows, zero included
C21_MissingColumnAlways ==
    (AssignReturned /\ LacksLabel) =>
        (pc = "failed" /\ finalSheetData = <<>> /\ pivotData = <<>>)

\* C21: with at least one data row, assign on a table whose header lacks
\* Dup_VLOOKUP or Info_VLOOKUP fails with MissingColumn and gives neither a
\* final table nor a pivot, however many rows survive the duplicate filter;
\* with no data row it returns the header-only table and an empty pivot
C21_MissingColumnWithDataRows ==
    (AssignReturned /\ LacksLabel) =>
        IF Len(processedData) >= 2
        THEN pc = "failed" /\ finalSheetData = <<>> /\ pivotData = <<>>
        ELSE pc = "assigned" /\ finalSheetData = <<EnrichedHeader>> /\ pivotData = <<>>

\* the header has Dup_VLOOKUP and lacks Info_VLOOKUP, and no data row survives
\* the duplicate filter
C21_Witness ==
    /\ pc = "failed"
    /\ Len(processedData) >= 2
    /\ findIndex(EnrichedHeader, "Dup_VLOOKUP") # -1
    /\ findIndex(EnrichedHeader, "Info_VLOOKUP") = -1
    /\ \A k \in 2..Len(processedData) :
          At(processedData[k], findIndex(EnrichedHeader, "Dup_VLOOKUP")) # Str("#N/A")

\* the first cell of row i (from 0) of the ColumnAProcessor worksheet
SheetFirstCell(i) == At(columnAFile[i + 1], 0)

\* the worksheet holds the first cell of row i, and it coerces to a number
Coercible(i) == SheetFirstCell(i) # Blank /\ ~isNaN(Number(SheetFirstCell(i)))

ColumnAList == columnAResult.uniqueNumbers

\* C22: processColumnA returns, without repetition and in strictly ascending
\* numeric order, exactly the numeric coercions of the first cells that are
\* present and coercible, over all rows of the sheet, row 0 included
C22_SortedUniqueAllRows ==
    columnAResult.returned =>
        /\ \A i, j \in 1..Len(ColumnAList) : i < j => ColumnAList[i] < ColumnAList[j]
        /\ \A i \in 0..(Len(columnAFile) - 1) :
              Coercible(i) =>
                \E k \in 1..Len(ColumnAList) : Num(ColumnAList[k]) = Number(SheetFirstCell(i))
        /\ \A k \in 1..Len(ColumnAList) :
              \E i \in 0..(Len(columnAFile) - 1) :
                Coercible(i) /\ Num(ColumnAList[k]) = Number(SheetFirstCell(i))

\* rows [10], [3], [x], [3]: the number of row 0 is in the list, 3 is there once
C22_Witness ==
    /\ columnAResult.returned
    /\ columnAFile = << <<Num(10)>>, <<Num(3)>>, <<Str("x")>>, <<Num(3)>> >>
    /\ ColumnAList = <<3, 10>>

\* the keys of the data rows the Normalizer retains
NormalizedKeys == {At(normalizedData[r + 1], 0) : r \in DataRows(normalizedData)}

\* C23: the rows the Normalizer retains have as keys exactly the values the
\* Extractor produces from rows >= 1 of the same sheet (row 0 is a header the
\* Extractor does not accept, so its list is that of rows >= 1)
C23_SameCoercion ==
    (columnAResult.returned /\ pc = "processed" /\ Len(columnAFile) > 0 /\ ~Coercible(0)) =>
        NormalizedKeys = {Num(ColumnAList[k]) : k \in 1..Len(ColumnAList)}

\* the step is the continuation of handleProcess after runInitialProcessing threw
ProcessingFailed == page.isLoading /\ ~page'.isLoading /\ ~page.readable

\* the assignAndGenerateExcel call the page awaits
AwaitedAssignment ==
    assignAndGenerateExcel(processedData, cnAssignees, jpAssignees, specialAssignees,
                           generalAssignees, page.assigning)

AssignmentThrows == AwaitedAssignment.threw \/ ~page.writable

\* the step is the continuation of handleFinalizeDownload
AssignmentFailed == page.isAssigning /\ ~page'.isAssigning /\ AssignmentThrows
AssignmentSucceeded == page.isAssigning /\ ~page'.isAssigning /\ ~AssignmentThrows

\* C24: a failed step publishes nothing.  When runInitialProcessing throws, the
\* table for assignment and the dialog flag are unchanged, the error is set
\* and isLoading is false; when assignAndGenerateExcel throws, the dialog stays
\* open, the table, the pivot and the dashboard flag are unchanged, the error
\* is set and isAssigning is false; the dashboard is shown only by a successful
\* assignment, which closes the dialog and publishes that call's pivot
C24_NoPartialResult ==
    [][/\ ProcessingFailed =>
            /\ processedData' = processedData
            /\ page'.showAssignmentModal = page.showAssignmentModal
            /\ page'.error = "set"
            /\ ~page'.isLoading
       /\ AssignmentFailed =>
            /\ page'.showAssignmentModal
            /\ processedData' = processedData
            /\ pivotData' = pivotData
            /\ page'.showDashboard = page.showDashboard
            /\ page'.error = "set"
            /\ ~page'.isAssigning
       /\ (page'.showDashboard /\ ~page.showDashboard) =>
            /\ AssignmentSucceeded
            /\ ~page'.showAssignmentModal
            /\ pivotData' = AwaitedAssignment.pivotData]_vars

\* a processing failed while the dialog was open on an earlier table
C24_Witness ==
    /\ page.error = "set"
    /\ page.files.raw = "corrupt"
    /\ ~page.isLoading
    /\ page.showAssignmentModal
    /\ processedData # <<>>
    /\ page.writable

\* C25: the filter mode handed to assignAndGenerateExcel is the one that was
\* handed to the runInitialProcessing call that produced the table being
\* assigned, whatever the user toggles while processing or in the dialog
C25_SameFilterMode == page.isAssigning => page.assigning = page.producedWith

AssigneeLists == <<cnAssignees, jpAssignees, specialAssignees, generalAssignees>>

\* a parsed name is not empty and holds neither a comma nor white space
WellFormed(name) ==
    Len(name) > 0 /\ \A k \in 1..Len(name) : ~IsSeparator(SubSeq(name, k, k))

NamesWellFormed ==
    \A l \in 1..4 : \A k \in 1..Len(AssigneeLists[l]) : WellFormed(AssigneeLists[l][k])

\* C27: whenever onAssign is invoked, at least one of the four parsed lists is
\* non-empty, and every parsed name is non-empty without comma or white space
C27_SomeNameGiven ==
    page.isAssigning =>
        /\ \E l \in 1..4 : Len(AssigneeLists[l]) > 0
        /\ NamesWellFormed

\* the assignment of the same files and name lists under ONLY-FLAGGED
OZResult ==
    assignAndGenerateExcel(runInitialProcessing(rawFile, infoFile, dupFile, "OZ"),
                           cnAssignees, jpAssignees, specialAssignees, generalAssignees,
                           "OZ")

\* the assigned rows of the first processAndAssign call (none when the table
\* had no data row and nothing was assigned)
FirstAssigned(result) ==
    IF Len(result) = 0 THEN <<>> ELSE AssignedRows(result[1])

\* C26: under ZOP the rows of the flagged partition are the same rows, in the
\* same order and with the same owners, as the whole result under OZ
C26_FlaggedPartitionIsOZ ==
    (IsAssigned /\ zraxFilter = "ZOP") =>
        FirstAssigned(partitions) = FirstAssigned(OZResult.partitions)

\* the enriched table has a data row and all its rows are as wide as its header
EnrichedAligned ==
    /\ Len(processedData) >= 2
    /\ \A k \in 2..Len(processedData) : Len(processedData[k]) = Len(EnrichedHeader)

FinalHeader == finalSheetData[1]

\* the number of cells of a header that hold the label CTR
CtrCount(header) == Cardinality({k \in 1..Len(header) : header[k] = Str("CTR")})

\* the enriched row of a final row (the key is the second cell of a final row)
EnrichedRowOf(final) ==
    processedData[CHOOSE k \in 2..Len(processedData) : At(processedData[k], 0) = At(final, 1)]

\* header first cell Screener, rows as wide as the header, "#N/A" under
\* Dup_VLOOKUP and the row's info value under Info_VLOOKUP
FinalAligned ==
    /\ At(FinalHeader, 0) = Str("Screener")
    /\ \A r \in DataRows(finalSheetData) :
          LET final == finalSheetData[r + 1]
          IN /\ Len(final) = Len(FinalHeader)
             /\ At(final, findIndex(FinalHeader, "Dup_VLOOKUP")) = Str("#N/A")
             /\ \E k \in 2..Len(processedData) : At(processedData[k], 0) = At(final, 1)
             /\ At(final, findIndex(FinalHeader, "Info_VLOOKUP")) =
                   At(EnrichedRowOf(final), findIndex(EnrichedHeader, "Info_VLOOKUP"))

\* C28 as stated: in the final table of an enriched table with a data row and
\* rows as wide as the header, the header starts with Screener and has no CTR
\* cell, every data row is as wide as the header, holds "#N/A" under
\* Dup_VLOOKUP and its info value under Info_VLOOKUP
C28_FinalTableNoCtr ==
    (IsAssigned /\ EnrichedAligned) =>
        (FinalAligned /\ CtrCount(FinalHeader) = 0)

\* C28: the same, the final header holding the CTR cells of the enriched header
\* but the first: none when the enriched header has CTR at most once
C28_FinalTableFirstCtrRemoved ==
    (IsAssigned /\ EnrichedAligned) =>
        /\ FinalAligned
        /\ CtrCount(FinalHeader) =
              IF CtrCount(EnrichedHeader) = 0 THEN 0 ELSE CtrCount(EnrichedHeader) - 1

\* one CTR label: two rows survive the duplicate filter, the final header is
\* Screener, A, I, Info_VLOOKUP, Dup_VLOOKUP
C28_Witness ==
    /\ IsAssigned /\ EnrichedAligned
    /\ CtrCount(EnrichedHeader) = 1
    /\ Len(finalSheetData) = 3
    /\ FinalHeader = <<Str("Screener"), Str("A"), Str("I"), Str("Info_VLOOKUP"),
                       Str("Dup_VLOOKUP")>>

\* the table runInitialProcessing returned, before any assignment touched it
Enriched == runInitialProcessing(rawFile, infoFile, dupFile, "NONE")

\* C29: in the App.tsx variant a retry after failed assignments produces the
\* final table of a first attempt: Screener once in the header and one owner
\* cell in every row, however many attempts failed
C29_RetrySameTable ==
    (IsAssigned /\ Len(Enriched) >= 2) =>
        /\ finalSheetData =
              assignAndGenerateExcelService(Enriched, cnAssignees, jpAssignees,
                                            specialAssignees, generalAssignees).finalSheetData
        /\ Cardinality({k \in 1..Len(FinalHeader) : FinalHeader[k] = Str("Screener")}) = 1
        /\ \A r \in DataRows(finalSheetData) :
              Len(finalSheetData[r + 1]) = Len(Enriched[1]) + 1

\* a cell the sheet does not hold, as sheet_to_json gives it with defval ""
EmptyCell(c) == c = Str("")

\* the keys of the cells at index col of the data rows that are not empty
KeysOf(table, col) ==
    {Number(At(table[j + 1], col)) :
        j \in {i \in DataRows(table) : ~EmptyCell(At(table[i + 1], col))}} \ {NaN}

\* C30: an empty cell is no key.  Every key of the processed table is the
\* coercion of a non-empty first cell of a raw row; a row has an info value
\* only when a non-empty column-B cell of the info sheet gives its key, and a
\* duplicate mark only when a non-empty column-G cell of the duplicate sheet does
C30_EmptyCellIsNoKey ==
    Processed =>
        \A r \in DataRows(processedData) :
            LET row == processedData[r + 1]
                key == At(row, 0)
            IN /\ key \in KeysOf(rawFile, 0)
               /\ At(row, Len(row) - 2) # Str("#N/A") => key \in KeysOf(infoFile, 1)
               /\ At(row, Len(row) - 1) # Str("#N/A") => key \in KeysOf(dupFile, 6)

====
